---- MODULE Spec2Model ----
(***************************************************************************)
(* Model of the RP1 clock driver, src/linux/drivers/clk/clk-rp1.c.         *)
(*                                                                         *)
(* TLC integers are 32-bit signed.  Every u64 intermediate of the driver  *)
(* that does not fit is held split in two words (an integer part and a    *)
(* fraction of fixed width) and computed exactly, by long division or by  *)
(* partial products; nothing is scaled or approximated.                   *)
(***************************************************************************)
EXTENDS Integers, Sequences, FiniteSets, TLC

VARIABLES
    args,            \* arguments of the call under evaluation
    retval,          \* <<v>> once the call has returned v, <<>> before
    cs_reg,          \* PLL core CS register: [lock, refdiv]
    pwr_reg,         \* PLL core PWR register (the six power-down bits)
    fbdiv_int_reg,   \* PLL core FBDIV_INT register
    fbdiv_frac_reg,  \* PLL core FBDIV_FRAC register
    cached_rate,     \* rp1_pll_core.cached_rate
    fatal,           \* TRUE once a BUG_ON has fired
    regs_lock,       \* clockman->regs_lock: "free", or the caller that took it
    prim_reg,        \* PLL_SYS_PRIM: [div1, div2, ph_en, phase]
    clk_ctrl,        \* CLK_x_CTRL of each clock: [enable, src, auxsrc]
    clk_div,         \* CLK_x_DIV_INT and CLK_x_DIV_FRAC of each clock
    gpclk_oe,        \* GPCLK_OE_CTRL
    fc_regs,         \* registers of each frequency counter block the driver writes
    fc_status,       \* FC0_STATUS of each block: [running, done], set by hardware
    caller,          \* per caller: the node it holds and the operations it calls
    pc,              \* per caller: position in the operation it is running
    op,              \* per caller: the operation it is running and its arguments
    tmp,             \* per caller: the u32 local a register was read into
    timer,           \* per caller: ticks since the polling loop set its timeout
    fc_result,       \* per caller: <<v>> once clockman_measure_clock returned v
    ret,             \* per caller: <<v>> once an operation has returned v
    rp1_clk_chg_tree, \* the three (hw, new_rate) entries of the pending retune
    clk_sel,         \* CLK_x_SEL of each clock, set by hardware
    clk_hw_rate,     \* rate of each named clock as clk_hw_get_rate returns it
    sec_reg          \* PLL_SYS_SEC: [div, rst, impl]

fnVars == <<args, retval>>

coreVars == <<cs_reg, pwr_reg, fbdiv_int_reg, fbdiv_frac_reg, cached_rate, fatal>>

bankVars == <<regs_lock, prim_reg, clk_ctrl, clk_div, gpclk_oe, fc_regs, fc_status>>

thrVars == <<caller, pc, op, tmp, timer, fc_result, ret>>

treeVars == <<rp1_clk_chg_tree, clk_sel, clk_hw_rate>>

secVars == <<sec_reg>>

vars == <<fnVars, coreVars, bankVars, thrVars, treeVars, secVars>>

(***************************************************************************)
(* Macros of the driver and of the kernel headers it uses.                 *)
(***************************************************************************)
ABS_DIFF(a, b) == IF a > b THEN a - b ELSE b - a

\* DIV_ROUND_CLOSEST of linux/math.h for unsigned operands.
DIV_ROUND_CLOSEST(x, divisor) == (x + (divisor \div 2)) \div divisor

KHz == 1000

MHz == KHz * KHz

DIV_INT_8BIT_MAX == 255

DIV_INT_16BIT_MAX == 65535

DIV_INT_24BIT_MAX == 16777215

CLK_DIV_FRAC_BITS == 16

FRAC_ONE == 2 ^ CLK_DIV_FRAC_BITS

\* bit i (0 = least significant) of x
BitOf(x, i) == (x \div (2 ^ i)) % 2

\* Long division, one bit of the low word per step: the quotient and the
\* remainder of (r * 2^nbits + the low nbits of lo) by d, for r < d.
RECURSIVE shift_divide(_, _, _, _, _)
shift_divide(r, q, lo, nbits, d) ==
    IF nbits = 0 THEN [q |-> q, r |-> r]
    ELSE LET r2 == 2 * r + BitOf(lo, nbits - 1)
         IN  IF r2 >= d
             THEN shift_divide(r2 - d, 2 * q + 1, lo, nbits - 1, d)
             ELSE shift_divide(r2, 2 * q, lo, nbits - 1, d)

(***************************************************************************)
(* State of the PLL core at probe.                                         *)
(***************************************************************************)
PLL_PWR_DSMPD == 4

PLL_PWR_MASK == 63

\* the registers and the node as rp1_register_pll_core finds them: the core
\* powered down, kzalloc'ed node
CoreAtProbe ==
    /\ cs_reg = [lock |-> FALSE, refdiv |-> 0]
    /\ pwr_reg = PLL_PWR_MASK
    /\ fbdiv_int_reg = 0
    /\ fbdiv_frac_reg = 0
    /\ cached_rate = 0
    /\ fatal = FALSE

(***************************************************************************)
(* Callers of the node operations and the register bank at probe.         *)
(***************************************************************************)
Threads == {"t1", "t2"}

GpClocks == {"clk_gp0", "clk_gp1"}

FC_COUNT == 8

\* the frequency counter blocks of the nodes modelled (fc0_src / 32)
FcBlocks == {0, 1, 2}

NoOp == [fn |-> "none"]

\* the u32 local of an operation before it is read into
NoTmp == [val |-> 0]

NoCaller == [node |-> "none", ops |-> {}]

\* spin_lock_init (line 2434) and the registers before any operation
BankAtProbe ==
    /\ regs_lock = "free"
    /\ prim_reg = [div1 |-> 0, div2 |-> 0, ph_en |-> FALSE, phase |-> 0]
    /\ clk_ctrl = [c \in GpClocks |-> [enable |-> FALSE, src |-> 0, auxsrc |-> 0]]
    /\ clk_div = [c \in GpClocks |-> [div_int |-> 0, div_frac |-> 0]]
    /\ gpclk_oe = 0
    /\ fc_regs = [i \in FcBlocks |->
                     [ref_khz |-> 0, min_khz |-> 0, max_khz |-> 0,
                      interval |-> 0, delay |-> 0, src |-> 0]]
    /\ fc_status = [i \in FcBlocks |-> [running |-> FALSE, done |-> FALSE]]

\* the retune plan zeroed (a static array), no mux switched yet, and no
\* clock rate looked up
TreeAtProbe ==
    /\ rp1_clk_chg_tree = [i \in 0..2 |-> [hw |-> "NULL", new_rate |-> 0]]
    /\ clk_sel = [c \in GpClocks |-> 0]
    /\ clk_hw_rate = <<>>

\* PLL_SYS_SEC as the firmware hands it over: the divider implemented, held
\* in reset, its field at the first valid value
SecAtProbe == sec_reg = [div |-> 8, rst |-> TRUE, impl |-> TRUE]

\* no caller is inside an operation
CallersIdle ==
    /\ pc = [t \in Threads |-> "idle"]
    /\ op = [t \in Threads |-> NoOp]
    /\ tmp = [t \in Threads |-> NoTmp]
    /\ timer = [t \in Threads |-> 0]
    /\ fc_result = [t \in Threads |-> <<>>]
    /\ ret = [t \in Threads |-> <<>>]

\* the state in which the pure functions of the driver are evaluated
NoCallers == caller = [t \in Threads |-> NoCaller] /\ CallersIdle /\ BankAtProbe

(***************************************************************************)
(* get_pll_prim_dividers: the search over div1 in 1..7, div2 in 1..div1.   *)
(***************************************************************************)
PRIM_DIV_MAX == 7

\* the test of line 708 that replaces the best pair
rate_diff_improves_rev(rate_diff, best_rate_diff) == rate_diff > best_rate_diff

rate_diff_improves_eq(rate_diff, best_rate_diff) == rate_diff <= best_rate_diff

rate_diff_improves(rate_diff, best_rate_diff) == rate_diff < best_rate_diff

\* best_div1 = 7, best_div2 = 7 and the difference they give (lines 694-696)
prim_initial_best(rate, parent_rate) ==
    [div1 |-> PRIM_DIV_MAX, div2 |-> PRIM_DIV_MAX,
     diff |-> ABS_DIFF(DIV_ROUND_CLOSEST(parent_rate, PRIM_DIV_MAX * PRIM_DIV_MAX), rate)]

RECURSIVE prim_search(_, _, _, _, _)
prim_search(rate, parent_rate, div1, div2, best) ==
    IF div1 > PRIM_DIV_MAX THEN best
    ELSE IF div2 > div1 THEN prim_search(rate, parent_rate, div1 + 1, 1, best)
    ELSE LET calc_rate == DIV_ROUND_CLOSEST(parent_rate, div1 * div2)
             rate_diff == ABS_DIFF(calc_rate, rate)
         IN  IF calc_rate = rate
             THEN [div1 |-> div1, div2 |-> div2, diff |-> best.diff]
             ELSE IF rate_diff_improves(rate_diff, best.diff)
             THEN prim_search(rate, parent_rate, div1, div2 + 1,
                              [div1 |-> div1, div2 |-> div2, diff |-> rate_diff])
             ELSE prim_search(rate, parent_rate, div1, div2 + 1, best)

get_pll_prim_dividers(rate, parent_rate) ==
    LET best == prim_search(rate, parent_rate, 1, 1,
                            prim_initial_best(rate, parent_rate))
    IN  <<best.div1, best.div2>>

(***************************************************************************)
(* SpecPrim: get_pll_prim_dividers applied to every (rate, parent_rate)    *)
(* of a small exhaustive range and to the rates of the real PLLs.          *)
(***************************************************************************)
MaxSmallRate == 110

PrimInputs ==
    [rate : 0..MaxSmallRate, parent_rate : 0..MaxSmallRate]
    \cup [rate : {166666666, 166666667, 200000000, 125000000, 61440000},
          parent_rate : {1000000000, 1536000000, 2000000000}]

InitPrim == args \in PrimInputs /\ retval = <<>> /\ CoreAtProbe /\ NoCallers /\ TreeAtProbe /\ SecAtProbe

call_get_pll_prim_dividers ==
    /\ retval = <<>>
    /\ args \in PrimInputs
    /\ retval' = <<get_pll_prim_dividers(args.rate, args.parent_rate)>>
    /\ UNCHANGED <<args, coreVars, bankVars, thrVars, treeVars, secVars>>

NextPrim == call_get_pll_prim_dividers

SpecPrim == InitPrim /\ [][NextPrim]_vars

\* the (div1, div2) pairs of the search, and the rate each gives
PrimPairs == {p \in (1..PRIM_DIV_MAX) \X (1..PRIM_DIV_MAX) : p[2] <= p[1]}

PrimDiff(p, a) == ABS_DIFF(DIV_ROUND_CLOSEST(a.parent_rate, p[1] * p[2]), a.rate)

Ret == retval[1]

PrimReturned == retval # <<>> /\ args \in PrimInputs

\* loop order: smaller div1 first, then smaller div2
PrimBefore(p, q) == p[1] < q[1] \/ (p[1] = q[1] /\ p[2] < q[2])

PrimMinPairs(a) == {p \in PrimPairs : \A q \in PrimPairs : PrimDiff(p, a) <= PrimDiff(q, a)}

PrimExactPairs(a) == {p \in PrimPairs : PrimDiff(p, a) = 0}

PrimFirst(S) == CHOOSE p \in S : \A q \in S : q = p \/ PrimBefore(p, q)

\* C8: the pair returned satisfies 1 <= div2 <= div1 <= 7 and no pair of the
\* search gives a rate closer to the target than the pair returned.
C8_PrimDividersClosest ==
    PrimReturned =>
        /\ Ret \in PrimPairs
        /\ \A q \in PrimPairs : PrimDiff(Ret, args) <= PrimDiff(q, args)

\* a call whose answer is neither the initial (7,7) nor an exact match
C8_Witness ==
    /\ PrimReturned
    /\ Ret # <<PRIM_DIV_MAX, PRIM_DIV_MAX>>
    /\ PrimDiff(Ret, args) > 0
    /\ \E q \in PrimPairs : PrimDiff(q, args) > PrimDiff(Ret, args)

\* C9 as stated: among the pairs of smallest difference the first in loop
\* order is returned (the first exact pair when one exists), and for
\* parent_rate = 1,000,000,000, target = parent_rate/6 the answer is (6,1) or
\* the lexicographically smallest pair of equal error.
C9_Original_FirstInLoopOrder ==
    PrimReturned =>
        /\ Ret = PrimFirst(PrimMinPairs(args))
        /\ (args.parent_rate = 1000000000 /\ args.rate = 166666666) =>
               (Ret = <<6, 1>> \/ Ret = PrimFirst(PrimMinPairs(args)))

\* C9 amended: the first pair of smallest difference in loop order is
\* returned, except that (7,7), the initial best, is returned whenever it is
\* among the pairs of smallest difference and no pair is exact; for
\* parent_rate = 1,000,000,000 and target = 166,666,666 the answer is (3,2).
C9_FirstInLoopOrderUnlessInitial ==
    PrimReturned =>
        /\ Ret =
             IF PrimExactPairs(args) # {} THEN PrimFirst(PrimExactPairs(args))
             ELSE IF <<PRIM_DIV_MAX, PRIM_DIV_MAX>> \in PrimMinPairs(args)
             THEN <<PRIM_DIV_MAX, PRIM_DIV_MAX>>
             ELSE PrimFirst(PrimMinPairs(args))
        /\ (args.parent_rate = 1000000000 /\ args.rate = 166666666) => Ret = <<3, 2>>

\* a tie between two inexact pairs, neither of them (7,7), settled for the
\* earlier one
C9_Witness ==
    /\ PrimReturned
    /\ PrimExactPairs(args) = {}
    /\ Cardinality(PrimMinPairs(args)) > 1
    /\ <<PRIM_DIV_MAX, PRIM_DIV_MAX>> \notin PrimMinPairs(args)
    /\ Ret = PrimFirst(PrimMinPairs(args))
    /\ args.parent_rate = 1000000000

(***************************************************************************)
(* Clock node descriptors (the fields of struct rp1_clock_data the node    *)
(* operations read).  div_frac_reg = 0 means the node has no fractional    *)
(* divider register; parents[i + 1] is the name of parent index i;         *)
(* no_reparent is the CLK_SET_RATE_NO_REPARENT flag.                       *)
(***************************************************************************)
clk_desc_array ==
    [clk_sys |->
        [parents |-> <<"xosc", "-", "pll_sys">>, no_reparent |-> FALSE,
         num_std_parents |-> 3, num_aux_parents |-> 0, oe_mask |-> 0,
         clk_src_mask |-> 3, div_frac_reg |-> 0,
         div_int_max |-> DIV_INT_24BIT_MAX, max_freq |-> 200 * MHz, fc0_src |-> 4],
     clk_uart |->
        [parents |-> <<"pll_sys_pri_ph", "pll_video", "xosc", "clksrc_gp0",
                       "clksrc_gp1", "clksrc_gp2", "clksrc_gp3", "clksrc_gp4",
                       "clksrc_gp5">>,
         no_reparent |-> FALSE,
         num_std_parents |-> 0, num_aux_parents |-> 9, oe_mask |-> 0,
         clk_src_mask |-> 0, div_frac_reg |-> 0,
         div_int_max |-> DIV_INT_8BIT_MAX, max_freq |-> 100 * MHz, fc0_src |-> 199],
     clk_pwm0 |->
        [parents |-> <<"", "pll_video_sec", "xosc", "clksrc_gp0", "clksrc_gp1",
                       "clksrc_gp2", "clksrc_gp3", "clksrc_gp4", "clksrc_gp5">>,
         no_reparent |-> FALSE,
         num_std_parents |-> 0, num_aux_parents |-> 9, oe_mask |-> 0,
         clk_src_mask |-> 0, div_frac_reg |-> 124,
         div_int_max |-> DIV_INT_16BIT_MAX, max_freq |-> 76800 * KHz, fc0_src |-> 5],
     clk_i2s |->
        [parents |-> <<"xosc", "pll_audio", "pll_audio_sec", "clksrc_gp0",
                       "clksrc_gp1", "clksrc_gp2", "clksrc_gp3", "clksrc_gp4",
                       "clksrc_gp5">>,
         no_reparent |-> FALSE,
         num_std_parents |-> 0, num_aux_parents |-> 9, oe_mask |-> 0,
         clk_src_mask |-> 0, div_frac_reg |-> 0,
         div_int_max |-> DIV_INT_8BIT_MAX, max_freq |-> 50 * MHz, fc0_src |-> 132],
     clk_mipi0_dpi |->
        [parents |-> <<"pll_sys", "pll_video_sec", "pll_video",
                       "clksrc_mipi0_dsi_byteclk", "clksrc_gp0", "clksrc_gp1",
                       "clksrc_gp2", "clksrc_gp3">>,
         no_reparent |-> TRUE,
         num_std_parents |-> 0, num_aux_parents |-> 8, oe_mask |-> 0,
         clk_src_mask |-> 0, div_frac_reg |-> 16424,
         div_int_max |-> DIV_INT_8BIT_MAX, max_freq |-> 200 * MHz, fc0_src |-> 70],
     clk_gp0 |->
        [parents |-> <<"xosc", "clksrc_gp1", "clksrc_gp2", "clksrc_gp3",
                       "clksrc_gp4", "clksrc_gp5", "pll_sys", "", "", "",
                       "clk_i2s", "clk_adc", "", "", "", "clk_sys">>,
         no_reparent |-> FALSE,
         num_std_parents |-> 0, num_aux_parents |-> 16, oe_mask |-> 1,
         clk_src_mask |-> 0, div_frac_reg |-> 380,
         div_int_max |-> DIV_INT_16BIT_MAX, max_freq |-> 100 * MHz, fc0_src |-> 1],
     clk_gp1 |->
        [parents |-> <<"clk_sdio_timer", "clksrc_gp0", "clksrc_gp2", "clksrc_gp3",
                       "clksrc_gp4", "clksrc_gp5", "pll_sys_pri_ph", "", "", "",
                       "clk_adc", "clk_dpi", "clk_pwm0", "", "", "">>,
         no_reparent |-> FALSE,
         num_std_parents |-> 0, num_aux_parents |-> 16, oe_mask |-> 2,
         clk_src_mask |-> 0, div_frac_reg |-> 396,
         div_int_max |-> DIV_INT_16BIT_MAX, max_freq |-> 100 * MHz, fc0_src |-> 33]]

(***************************************************************************)
(* rp1_clock_choose_div.  The u64 "div" is held as [int, frac] with        *)
(* div = int * 2^16 + frac and frac < 2^16.                                *)
(***************************************************************************)
\* div = (u64)parent_rate << 16; div = DIV_U64_NEAREST(div, rate)  (1086-1087)
div_frac_nearest(parent_rate, rate) ==
    LET half == rate \div 2
        hi   == parent_rate + (half \div FRAC_ONE)
        lo   == half % FRAC_ONE
        low  == shift_divide(hi % rate, 0, lo, CLK_DIV_FRAC_BITS, rate)
    IN  [int |-> hi \div rate, frac |-> low.q]

\* div = DIV_U64_NEAREST(parent_rate, rate); div <<= 16  (1089-1090)
div_int_nearest(parent_rate, rate) ==
    [int |-> (parent_rate + (rate \div 2)) \div rate, frac |-> 0]

\* clamp(div, 1ull << 16, (u64)div_int_max << 16)  (1093-1095)
clamp_div(div, div_int_max) ==
    IF div.int < 1 THEN [int |-> 1, frac |-> 0]
    ELSE IF div.int > div_int_max \/ (div.int = div_int_max /\ div.frac > 0)
    THEN [int |-> div_int_max, frac |-> 0]
    ELSE div

\* the u64 "div" returned through the function's u32 return type  (1069, 1097)
div_to_u32(div) == [int |-> div.int % FRAC_ONE, frac |-> div.frac]

DIV_ZERO == [int |-> 0, frac |-> 0]

\* the test of line 1078
choose_div_rejects(rate, parent_rate) ==
    rate = 0 \/ rate > parent_rate + (parent_rate \div FRAC_ONE)

rp1_clock_choose_div(rate, parent_rate, data) ==
    IF choose_div_rejects(rate, parent_rate) THEN DIV_ZERO
    ELSE LET div == IF data.div_frac_reg # 0
                    THEN div_frac_nearest(parent_rate, rate)
                    ELSE div_int_nearest(parent_rate, rate)
         IN  div_to_u32(clamp_div(div, data.div_int_max))

(***************************************************************************)
(* SpecDiv: rp1_clock_choose_div applied, for nodes of each integer width  *)
(* with and without a fractional register, to a small exhaustive range and *)
(* to rates of the real tree.                                              *)
(***************************************************************************)
MaxSmallDiv == 12

DivNodes == {"clk_sys", "clk_uart", "clk_pwm0", "clk_mipi0_dpi"}

DivInputs ==
    [node : DivNodes, rate : 0..MaxSmallDiv, parent_rate : 0..MaxSmallDiv]
    \cup [node : DivNodes,
          rate : {1, 3, 1000, 65537, 65538, 100 * MHz, 200 * MHz},
          parent_rate : {255, 256, 32767, 65536, 65536 * KHz, 200 * MHz}]

InitDiv == args \in DivInputs /\ retval = <<>> /\ CoreAtProbe /\ NoCallers /\ TreeAtProbe /\ SecAtProbe

call_rp1_clock_choose_div ==
    /\ retval = <<>>
    /\ args \in DivInputs
    /\ retval' = <<rp1_clock_choose_div(args.rate, args.parent_rate,
                                        clk_desc_array[args.node])>>
    /\ UNCHANGED <<args, coreVars, bankVars, thrVars, treeVars, secVars>>

NextDiv == call_rp1_clock_choose_div

SpecDiv == InitDiv /\ [][NextDiv]_vars

DivReturned == retval # <<>> /\ args \in DivInputs

\* round(parent_rate * 2^16 / rate) and round(parent_rate / rate) * 2^16 as
\* [int, frac], where parent_rate * 2^16 is small enough to be computed as
\* one number
DivExpectedKnown(a) ==
    clk_desc_array[a.node].div_frac_reg = 0 \/ a.parent_rate < 2 ^ 15

DivExpected(a) ==
    LET d == clk_desc_array[a.node]
        v == IF d.div_frac_reg # 0
             THEN LET x == (a.parent_rate * FRAC_ONE + (a.rate \div 2)) \div a.rate
                  IN  [int |-> x \div FRAC_ONE, frac |-> x % FRAC_ONE]
             ELSE [int |-> (a.parent_rate + (a.rate \div 2)) \div a.rate, frac |-> 0]
    IN  IF v.int < 1 THEN [int |-> 1, frac |-> 0]
        ELSE IF v.int > d.div_int_max \/ (v.int = d.div_int_max /\ v.frac > 0)
        THEN [int |-> d.div_int_max, frac |-> 0]
        ELSE v

\* C10: choose_div returns 0 exactly when target = 0 or target exceeds
\* parent_rate + floor(parent_rate / 2^16); otherwise it returns the rounded
\* fixed-point quotient clamped to the node's range; a fractional node with
\* parent_rate = 200 MHz and target = 100 MHz gets 0x20000.
C10_ChooseDivValue ==
    DivReturned =>
        /\ (Ret = DIV_ZERO) <=>
              (args.rate = 0 \/ args.rate > args.parent_rate + (args.parent_rate \div FRAC_ONE))
        /\ (Ret # DIV_ZERO /\ DivExpectedKnown(args)) => Ret = DivExpected(args)
        /\ (/\ clk_desc_array[args.node].div_frac_reg # 0
            /\ args.parent_rate = 200 * MHz
            /\ args.rate = 100 * MHz) => Ret = [int |-> 2, frac |-> 0]

\* C10 restricted to the nodes whose integer part is 8 or 16 bits wide
DivNarrowNodesValue ==
    clk_desc_array[args.node].div_int_max < FRAC_ONE => C10_ChooseDivValue

(***************************************************************************)
(* PLL core: registers, get_pll_core_divider, set_rate, recalc_rate and    *)
(* round_rate.                                                             *)
(***************************************************************************)
\* ((u64)parent_rate * (((u64)fbdiv_int << 24) + fbdiv_frac) + (1 << 23)) >> 24
\* (lines 588-589 and 650-651), by 12-bit partial products
mul_frac24_round(parent_rate, fbdiv_int, fbdiv_frac) ==
    LET ph  == parent_rate \div 4096
        pl  == parent_rate % 4096
        fh  == fbdiv_frac \div 4096
        fl  == fbdiv_frac % 4096
        mid == ph * fl + pl * fh
    IN  parent_rate * fbdiv_int + ph * fh + (mid \div 4096)
        + (((mid % 4096) * 4096 + pl * fl + 2 ^ 23) \div (2 ^ 24))

\* the fbdiv_frac of line 586, (div_fp64 >> 8) & 0xffffff, for the 32-bit
\* fraction held as two 16-bit halves
frac24_of(frac_hi, frac_lo) == frac_hi * 256 + (frac_lo \div 256)

get_pll_core_divider(rate, parent_rate) ==
    LET \* div_fp64 = DIV_U64_NEAREST((u64)rate << 32, parent_rate)
        half == parent_rate \div 2
        s1   == shift_divide(rate % parent_rate, 0, half \div FRAC_ONE, 16, parent_rate)
        s2   == shift_divide(s1.r, 0, half % FRAC_ONE, 16, parent_rate)
        \* div_fp64 += 1 << (32 - 24 - 1), with its carries
        lo   == s2.q + 128
        hi   == s1.q + (lo \div FRAC_ONE)
        fbdiv_int  == (rate \div parent_rate) + (hi \div FRAC_ONE)
        fbdiv_frac == frac24_of(hi % FRAC_ONE, lo % FRAC_ONE)
    IN  [calc_rate |-> mul_frac24_round(parent_rate, fbdiv_int, fbdiv_frac),
         div_int   |-> fbdiv_int,
         div_frac  |-> fbdiv_frac]

rp1_pll_core_recalc_rate(parent_rate) ==
    mul_frac24_round(parent_rate, fbdiv_int_reg, fbdiv_frac_reg)

rp1_pll_core_round_rate(rate, parent_rate) ==
    get_pll_core_divider(rate, parent_rate).calc_rate

\* caching the requested rate instead of the computed one
core_rate_to_cache_raw(rate, calc_rate) == rate

\* cached_rate = calc_rate (line 627)
core_rate_to_cache(rate, calc_rate) == calc_rate

\* The whole of rp1_pll_core_set_rate: the divider registers are zeroed,
\* then PWR, FBDIV_INT and FBDIV_FRAC are written, then BUG_ON is evaluated;
\* only a call that passes it caches the rate and sets the reference divider.
rp1_pll_core_set_rate(rate, parent_rate) ==
    LET d == get_pll_core_divider(rate, parent_rate)
    IN  /\ pwr_reg' = IF d.div_frac # 0 THEN 0 ELSE PLL_PWR_DSMPD
        /\ fbdiv_int_reg' = d.div_int
        /\ fbdiv_frac_reg' = d.div_frac
        /\ IF parent_rate > rate \div 16
           THEN fatal' = TRUE /\ UNCHANGED <<cached_rate, cs_reg>>
           ELSE /\ cached_rate' = core_rate_to_cache(rate, d.calc_rate)
                /\ cs_reg' = [cs_reg EXCEPT !.refdiv = 1]
                /\ UNCHANGED fatal

(***************************************************************************)
(* SpecCore: the host calling set_rate, recalc_rate and round_rate of one  *)
(* PLL core, one call after the other.                                     *)
(***************************************************************************)
MaxSmallCoreRate == 60

\* requests against the board's 50 MHz crystal
CoreXoscInputs ==
    [rate : {100 * MHz, 800 * MHz - 1, 1000 * MHz, 1000 * MHz + 1,
             1234567891, 1536 * MHz, 2000 * MHz},
     parent_rate : {50 * MHz}]

CoreInputs ==
    [rate : 0..MaxSmallCoreRate, parent_rate : {3}] \cup CoreXoscInputs

CoreParents == {a.parent_rate : a \in CoreInputs}

InitCore ==
    args = [op |-> "probe"] /\ retval = <<>> /\ CoreAtProbe /\ NoCallers /\ TreeAtProbe /\ SecAtProbe

call_rp1_pll_core_set_rate ==
    \E a \in CoreInputs :
        /\ ~fatal
        /\ args' = [op |-> "set_rate", rate |-> a.rate, parent_rate |-> a.parent_rate]
        /\ rp1_pll_core_set_rate(a.rate, a.parent_rate)
        /\ retval' = IF fatal' THEN <<>> ELSE <<0>>
        /\ UNCHANGED <<bankVars, thrVars, treeVars, secVars>>

call_rp1_pll_core_recalc_rate ==
    \E p \in CoreParents :
        /\ ~fatal
        /\ args' = [op |-> "recalc_rate", parent_rate |-> p]
        /\ retval' = <<rp1_pll_core_recalc_rate(p)>>
        /\ UNCHANGED <<coreVars, bankVars, thrVars, treeVars, secVars>>

call_rp1_pll_core_round_rate ==
    \E a \in CoreXoscInputs :
        /\ ~fatal
        /\ args' = [op |-> "round_rate", rate |-> a.rate, parent_rate |-> a.parent_rate]
        /\ retval' = <<rp1_pll_core_round_rate(a.rate, a.parent_rate)>>
        /\ UNCHANGED <<coreVars, bankVars, thrVars, treeVars, secVars>>

NextCore ==
    \/ call_rp1_pll_core_set_rate
    \/ call_rp1_pll_core_recalc_rate
    \/ call_rp1_pll_core_round_rate

SpecCore == InitCore /\ [][NextCore]_vars

\* C6: after set_rate(target, parent_rate) with 0 < parent_rate <= target/16,
\* round_rate(target, parent_rate), the rate set_rate cached and
\* recalc_rate(parent_rate) read back from the registers are one value.
C6_CoreRatesAgree ==
    (args.op = "set_rate" /\ ~fatal) =>
        /\ cached_rate = rp1_pll_core_round_rate(args.rate, args.parent_rate)
        /\ rp1_pll_core_recalc_rate(args.parent_rate) = cached_rate

\* a completed set_rate of the 50 MHz reference to a rate that needs a
\* fractional feedback divisor and is not reproduced exactly
C6_Witness ==
    /\ args.op = "set_rate"
    /\ ~fatal
    /\ args.parent_rate = 50 * MHz
    /\ fbdiv_frac_reg # 0
    /\ cached_rate # args.rate
    /\ cached_rate > 0

\* C7: a set_rate call with parent_rate > target/16 ends in the fatal state
\* and has changed none of FBDIV_INT, FBDIV_FRAC and PWR.
C7_FatalBeforeProgramming ==
    [][(args'.op = "set_rate" /\ ~fatal /\ args'.parent_rate > args'.rate \div 16)
          => (fatal' /\ UNCHANGED <<fbdiv_int_reg, fbdiv_frac_reg, pwr_reg>>)]_vars

(***************************************************************************)
(* The node operations as concurrent callers run them.  A caller holds one *)
(* node; each step below is one critical section boundary, one register    *)
(* read-modify-write or one evaluation of a polling loop's condition.      *)
(***************************************************************************)
ETIMEDOUT == 110

EINVAL == 22

AUX_SEL == 1

\* the "no parent change" index rp1_clock_set_rate passes (line 1210)
NO_PARENT == 255

\* struct rp1_pll_data of pll_sys and struct rp1_pll_ph_data of
\* pll_sys_pri_ph, which both work on PLL_SYS_PRIM, and struct rp1_pll_data
\* of pll_sys_sec
pll_desc_array ==
    [pll_sys        |-> [reg |-> "PLL_SYS_PRIM", phase |-> 0, fc0_src |-> 0 * 32 + 2],
     pll_sys_pri_ph |-> [reg |-> "PLL_SYS_PRIM", phase |-> 0, fc0_src |-> 1 * 32 + 2],
     pll_sys_sec    |-> [reg |-> "PLL_SYS_SEC", fc0_src |-> 2 * 32 + 2]]

\* data->fc0_src of the node a caller holds
fc0_src_of(node) ==
    IF node \in GpClocks THEN clk_desc_array[node].fc0_src
    ELSE pll_desc_array[node].fc0_src

RECURSIVE bit_or(_, _)
bit_or(a, b) ==
    IF a = 0 THEN b
    ELSE IF b = 0 THEN a
    ELSE (IF a % 2 = 1 \/ b % 2 = 1 THEN 1 ELSE 0) + 2 * bit_or(a \div 2, b \div 2)

RECURSIVE bit_and(_, _)
bit_and(a, b) ==
    IF a = 0 \/ b = 0 THEN 0
    ELSE (IF a % 2 = 1 /\ b % 2 = 1 THEN 1 ELSE 0) + 2 * bit_and(a \div 2, b \div 2)

\* a & ~b
RECURSIVE bit_andnot(_, _)
bit_andnot(a, b) ==
    IF a = 0 THEN 0
    ELSE (IF a % 2 = 1 /\ b % 2 = 0 THEN 1 ELSE 0) + 2 * bit_andnot(a \div 2, b \div 2)

\* set_register_field for a field at shift 0
set_register_field(reg, val, mask) == bit_or(bit_andnot(reg, mask), bit_and(val, mask))

\* spin_lock returns only once the lock is free
spin_lock_unguarded == TRUE

spin_lock_free == regs_lock = "free"

spin_lock(t) == spin_lock_free /\ regs_lock' = t

spin_unlock == regs_lock' = "free"

\* bound of a polling loop, in ticks of the clock ktime_get reads
TicksPerTimeout == 1

\* ktime_after(ktime_get(), timeout)
ktime_after_always(t) == TRUE

ktime_after(t) == timer[t] > TicksPerTimeout

PollPcs == {"fc_poll_running", "fc_poll_done", "core_poll"}

Goto(t, p) == pc' = [pc EXCEPT ![t] = p]

SetTmp(t, v) == tmp' = [tmp EXCEPT ![t] = v]

\* timeout = ktime_add_ns(ktime_get(), ...)
StartTimer(t) == timer' = [timer EXCEPT ![t] = 0]

\* an operation returns v to its caller
Return(t, v) ==
    /\ pc' = [pc EXCEPT ![t] = "idle"]
    /\ op' = [op EXCEPT ![t] = NoOp]
    /\ ret' = [ret EXCEPT ![t] = v]
    /\ tmp' = [tmp EXCEPT ![t] = NoTmp]
    /\ fc_result' = [fc_result EXCEPT ![t] = <<>>]

\* a void operation returns
ReturnVoid(t) == Return(t, ret[t])

Idle(t, fn) == pc[t] = "idle" /\ fn \in caller[t].ops

\* time passes for every caller inside a polling loop
Tick ==
    /\ \E t \in Threads : pc[t] \in PollPcs /\ timer[t] <= TicksPerTimeout
    /\ timer' = [t \in Threads |->
                    IF pc[t] \in PollPcs /\ timer[t] <= TicksPerTimeout
                    THEN timer[t] + 1 ELSE timer[t]]
    /\ UNCHANGED <<treeVars, secVars, fnVars, coreVars, bankVars, caller, pc, op, tmp, fc_result, ret>>

(***************************************************************************)
(* clockman_measure_clock, which rp1_pll_set_rate, rp1_pll_ph_on,          *)
(* rp1_clock_on and rp1_clock_set_rate_and_parent call last.               *)
(***************************************************************************)
\* rate of clk_slow_sys, the reference of the frequency counters
SlowSysRate == 50 * MHz

\* values the FC0_RESULT register is read as
FcResults == {0, 200 * KHz}

fc_idx_of(t) == fc0_src_of(caller[t].node) \div 32

fc_src_of(t) == fc0_src_of(caller[t].node) % 32

\* the call: lines 459-468
measure_call(t) ==
    IF fc_src_of(t) = 0 \/ fc_idx_of(t) >= FC_COUNT
    THEN /\ Goto(t, "fc_return")
         /\ fc_result' = [fc_result EXCEPT ![t] = <<0>>]
         /\ UNCHANGED timer
    ELSE /\ Goto(t, "fc_poll_running")
         /\ StartTimer(t)
         /\ UNCHANGED fc_result

\* one evaluation of the loop of lines 469-477
fc_poll_running(t) ==
    /\ pc[t] = "fc_poll_running"
    /\ IF ~fc_status[fc_idx_of(t)].running
       THEN Goto(t, "fc_lock_setup") /\ UNCHANGED fc_result
       ELSE /\ ktime_after(t)
            /\ Goto(t, "fc_return")
            /\ fc_result' = [fc_result EXCEPT ![t] = <<0>>]
    /\ StartTimer(t)
    /\ UNCHANGED <<treeVars, secVars, fnVars, coreVars, bankVars, caller, op, tmp, ret>>

\* line 479
fc_lock_setup(t) ==
    /\ pc[t] = "fc_lock_setup"
    /\ spin_lock(t)
    /\ Goto(t, "fc_setup")
    /\ UNCHANGED <<treeVars, secVars, fnVars, coreVars, prim_reg, clk_ctrl, clk_div, gpclk_oe, fc_regs,
                   fc_status, caller, op, tmp, timer, fc_result, ret>>

\* lines 480-489
fc_setup(t) ==
    /\ pc[t] = "fc_setup"
    /\ fc_regs' = [fc_regs EXCEPT ![fc_idx_of(t)] =
                      [ref_khz |-> SlowSysRate \div KHz, min_khz |-> 0,
                       max_khz |-> 33554431, interval |-> 8, delay |-> 7,
                       src |-> fc_src_of(t)]]
    /\ spin_unlock
    /\ Goto(t, "fc_poll_done")
    /\ StartTimer(t)
    /\ UNCHANGED <<treeVars, secVars, fnVars, coreVars, prim_reg, clk_ctrl, clk_div, gpclk_oe, fc_status,
                   caller, op, tmp, fc_result, ret>>

\* one evaluation of the loop of lines 491-498, and the read of line 500
fc_poll_done(t) ==
    /\ pc[t] = "fc_poll_done"
    /\ IF fc_status[fc_idx_of(t)].done
       THEN /\ Goto(t, "fc_lock_clear")
            /\ \E result \in FcResults :
                   fc_result' = [fc_result EXCEPT ![t] = <<result>>]
       ELSE /\ ktime_after(t)
            /\ Goto(t, "fc_return")
            /\ fc_result' = [fc_result EXCEPT ![t] = <<0>>]
    /\ StartTimer(t)
    /\ UNCHANGED <<treeVars, secVars, fnVars, coreVars, bankVars, caller, op, tmp, ret>>

\* line 503
fc_lock_clear(t) ==
    /\ pc[t] = "fc_lock_clear"
    /\ spin_lock(t)
    /\ Goto(t, "fc_clear")
    /\ UNCHANGED <<treeVars, secVars, fnVars, coreVars, prim_reg, clk_ctrl, clk_div, gpclk_oe, fc_regs,
                   fc_status, caller, op, tmp, timer, fc_result, ret>>

\* lines 504-507
fc_clear(t) ==
    /\ pc[t] = "fc_clear"
    /\ fc_regs' = [fc_regs EXCEPT ![fc_idx_of(t)].src = 0]
    /\ spin_unlock
    /\ Goto(t, "fc_return")
    /\ UNCHANGED <<treeVars, secVars, fnVars, coreVars, prim_reg, clk_ctrl, clk_div, gpclk_oe, fc_status,
                   caller, op, tmp, timer, fc_result, ret>>

\* the caller drops the result and returns 0 (lines 743, 826, 1050, 1204)
fc_return(t) ==
    /\ pc[t] = "fc_return"
    /\ Return(t, <<0>>)
    /\ UNCHANGED <<treeVars, secVars, fnVars, coreVars, bankVars, caller, timer>>

clockman_measure_clock(t) ==
    \/ fc_poll_running(t)
    \/ fc_lock_setup(t)
    \/ fc_setup(t)
    \/ fc_poll_done(t)
    \/ fc_lock_clear(t)
    \/ fc_clear(t)
    \/ fc_return(t)

\* the hardware changes the status of a counter block some caller's node uses
hw_fc_status ==
    \E i \in FcBlocks, st \in [running : BOOLEAN, done : BOOLEAN] :
        /\ \E t \in Threads :
               /\ caller[t].node \in DOMAIN pll_desc_array \cup GpClocks
               /\ fc_idx_of(t) = i
        /\ st # fc_status[i]
        /\ fc_status' = [fc_status EXCEPT ![i] = st]
        /\ UNCHANGED <<treeVars, secVars, fnVars, coreVars, regs_lock, prim_reg, clk_ctrl, clk_div,
                       gpclk_oe, fc_regs, thrVars>>

(***************************************************************************)
(* rp1_pll_set_rate, rp1_pll_ph_on and rp1_pll_ph_off on PLL_SYS_PRIM.     *)
(***************************************************************************)
\* (rate, parent_rate) requests of pll_sys
PllRateInputs ==
    {[rate |-> 200 * MHz, parent_rate |-> 1000 * MHz],
     [rate |-> 125 * MHz, parent_rate |-> 1000 * MHz]}

\* lines 729-732: the dividers are computed, the lock taken, the register read
pll_set_rate_read(t) ==
    /\ Idle(t, "rp1_pll_set_rate")
    /\ \E a \in PllRateInputs :
           op' = [op EXCEPT ![t] = [fn |-> "rp1_pll_set_rate", rate |-> a.rate,
                                    parent_rate |-> a.parent_rate]]
    /\ spin_lock(t)
    /\ SetTmp(t, prim_reg)
    /\ Goto(t, "pll_write")
    /\ UNCHANGED <<treeVars, secVars, fnVars, coreVars, prim_reg, clk_ctrl, clk_div, gpclk_oe, fc_regs,
                   fc_status, caller, timer, fc_result, ret>>

\* lines 733-741
pll_set_rate_write(t) ==
    /\ pc[t] = "pll_write"
    /\ LET d == get_pll_prim_dividers(op[t].rate, op[t].parent_rate)
       IN  prim_reg' = [tmp[t] EXCEPT !.div1 = d[1], !.div2 = d[2]]
    /\ spin_unlock
    /\ measure_call(t)
    /\ SetTmp(t, NoTmp)
    /\ UNCHANGED <<treeVars, secVars, fnVars, coreVars, clk_ctrl, clk_div, gpclk_oe, fc_regs, fc_status,
                   caller, op, ret>>

rp1_pll_set_rate(t) == pll_set_rate_read(t) \/ pll_set_rate_write(t)

\* lines 816-817
pll_ph_on_read(t) ==
    /\ Idle(t, "rp1_pll_ph_on")
    /\ op' = [op EXCEPT ![t] = [fn |-> "rp1_pll_ph_on"]]
    /\ spin_lock(t)
    /\ SetTmp(t, prim_reg)
    /\ Goto(t, "ph_on_write")
    /\ UNCHANGED <<treeVars, secVars, fnVars, coreVars, prim_reg, clk_ctrl, clk_div, gpclk_oe, fc_regs,
                   fc_status, caller, timer, fc_result, ret>>

\* lines 818-824
pll_ph_on_write(t) ==
    /\ pc[t] = "ph_on_write"
    /\ prim_reg' = [tmp[t] EXCEPT
                       !.phase = bit_or(@, pll_desc_array[caller[t].node].phase),
                       !.ph_en = TRUE]
    /\ spin_unlock
    /\ measure_call(t)
    /\ SetTmp(t, NoTmp)
    /\ UNCHANGED <<treeVars, secVars, fnVars, coreVars, clk_ctrl, clk_div, gpclk_oe, fc_regs, fc_status,
                   caller, op, ret>>

rp1_pll_ph_on(t) == pll_ph_on_read(t) \/ pll_ph_on_write(t)

\* line 835 and the read of line 837
pll_ph_off_read(t) ==
    /\ Idle(t, "rp1_pll_ph_off")
    /\ op' = [op EXCEPT ![t] = [fn |-> "rp1_pll_ph_off"]]
    /\ spin_lock(t)
    /\ SetTmp(t, prim_reg)
    /\ Goto(t, "ph_off_write")
    /\ UNCHANGED <<treeVars, secVars, fnVars, coreVars, prim_reg, clk_ctrl, clk_div, gpclk_oe, fc_regs,
                   fc_status, caller, timer, fc_result, ret>>

\* lines 836-839
pll_ph_off_write(t) ==
    /\ pc[t] = "ph_off_write"
    /\ prim_reg' = [tmp[t] EXCEPT !.ph_en = FALSE]
    /\ spin_unlock
    /\ ReturnVoid(t)
    /\ UNCHANGED <<treeVars, secVars, fnVars, coreVars, clk_ctrl, clk_div, gpclk_oe, fc_regs, fc_status,
                   caller, timer>>

rp1_pll_ph_off(t) == pll_ph_off_read(t) \/ pll_ph_off_write(t)

(***************************************************************************)
(* rp1_clock_on and rp1_clock_off.                                         *)
(***************************************************************************)
clock_data(t) == clk_desc_array[caller[t].node]

\* lines 1038-1040 and 1059-1061: the lock taken, CTRL read
clock_gate_read(t, fn) ==
    /\ Idle(t, fn)
    /\ op' = [op EXCEPT ![t] = [fn |-> fn]]
    /\ spin_lock(t)
    /\ SetTmp(t, clk_ctrl[caller[t].node])
    /\ Goto(t, "gate_ctrl_write")
    /\ UNCHANGED <<treeVars, secVars, fnVars, coreVars, prim_reg, clk_ctrl, clk_div, gpclk_oe, fc_regs,
                   fc_status, caller, timer, fc_result, ret>>

\* the end of either operation: rp1_clock_on goes on to measure
clock_gate_done(t) ==
    IF op[t].fn = "rp1_clock_on"
    THEN measure_call(t) /\ UNCHANGED <<op, ret>>
    ELSE /\ pc' = [pc EXCEPT ![t] = "idle"]
         /\ op' = [op EXCEPT ![t] = NoOp]
         /\ UNCHANGED <<timer, fc_result, ret>>

\* lines 1039-1043 and 1060-1064: CTRL written; GPCLK_OE_CTRL read if the
\* node drives a pin, else the lock released
clock_gate_ctrl_write(t) ==
    /\ pc[t] = "gate_ctrl_write"
    /\ clk_ctrl' = [clk_ctrl EXCEPT ![caller[t].node] =
                       [tmp[t] EXCEPT !.enable = (op[t].fn = "rp1_clock_on")]]
    /\ IF clock_data(t).oe_mask # 0
       THEN /\ SetTmp(t, [val |-> gpclk_oe])
            /\ Goto(t, "gate_oe_write")
            /\ UNCHANGED <<regs_lock, op, timer, fc_result, ret>>
       ELSE /\ spin_unlock
            /\ clock_gate_done(t)
            /\ SetTmp(t, NoTmp)
    /\ UNCHANGED <<treeVars, secVars, fnVars, coreVars, prim_reg, clk_div, gpclk_oe, fc_regs, fc_status,
                   caller>>

\* lines 1042-1045 and 1063-1066
clock_gate_oe_write(t) ==
    /\ pc[t] = "gate_oe_write"
    /\ gpclk_oe' = IF op[t].fn = "rp1_clock_on"
                   THEN bit_or(tmp[t].val, clock_data(t).oe_mask)
                   ELSE bit_andnot(tmp[t].val, clock_data(t).oe_mask)
    /\ spin_unlock
    /\ clock_gate_done(t)
    /\ SetTmp(t, NoTmp)
    /\ UNCHANGED <<treeVars, secVars, fnVars, coreVars, prim_reg, clk_ctrl, clk_div, fc_regs, fc_status,
                   caller>>

rp1_clock_on(t) ==
    \/ clock_gate_read(t, "rp1_clock_on")
    \/ op[t].fn = "rp1_clock_on" /\ clock_gate_ctrl_write(t)
    \/ op[t].fn = "rp1_clock_on" /\ clock_gate_oe_write(t)

rp1_clock_off(t) ==
    \/ clock_gate_read(t, "rp1_clock_off")
    \/ op[t].fn = "rp1_clock_off" /\ clock_gate_ctrl_write(t)
    \/ op[t].fn = "rp1_clock_off" /\ clock_gate_oe_write(t)

(***************************************************************************)
(* rp1_clock_set_parent and rp1_clock_set_rate_and_parent.                 *)
(***************************************************************************)
\* parent indices a caller passes: a declared one and the first undeclared one
ParentInputs(data) == {1, data.num_std_parents + data.num_aux_parents}

\* (rate, parent_rate) requests of a clock
ClockRateInputs == {[rate |-> 100 * MHz, parent_rate |-> 200 * MHz]}

\* lines 1142-1143, entered from the framework
clock_set_parent_read(t) ==
    /\ Idle(t, "rp1_clock_set_parent")
    /\ \E index \in ParentInputs(clock_data(t)) :
           op' = [op EXCEPT ![t] = [fn |-> "rp1_clock_set_parent", index |-> index]]
    /\ spin_lock(t)
    /\ SetTmp(t, clk_ctrl[caller[t].node])
    /\ Goto(t, "set_parent_write")
    /\ UNCHANGED <<treeVars, secVars, fnVars, coreVars, prim_reg, clk_ctrl, clk_div, gpclk_oe, fc_regs,
                   fc_status, caller, timer, fc_result, ret>>

\* rp1_clock_set_parent returns v: to the framework, or into
\* rp1_clock_set_rate_and_parent, which ignores v
clock_set_parent_return(t, v) ==
    IF op[t].fn = "rp1_clock_set_parent"
    THEN Return(t, v)
    ELSE Goto(t, "srp_measure") /\ SetTmp(t, NoTmp) /\ UNCHANGED <<op, ret, fc_result>>

\* lines 1145-1169
clock_set_parent_write(t) ==
    /\ pc[t] = "set_parent_write"
    /\ LET data  == clock_data(t)
           index == op[t].index
           aux   == [tmp[t] EXCEPT
                        !.auxsrc = (index - data.num_std_parents) % 32,
                        !.src = set_register_field(@, AUX_SEL, data.clk_src_mask)]
           std   == [tmp[t] EXCEPT
                        !.src = set_register_field(@, index, data.clk_src_mask)]
       IN  IF index >= data.num_std_parents + data.num_aux_parents
           THEN /\ clock_set_parent_return(t, <<-EINVAL>>)
                /\ UNCHANGED <<regs_lock, clk_ctrl>>
           ELSE /\ clk_ctrl' = [clk_ctrl EXCEPT ![caller[t].node] =
                                   IF index >= data.num_std_parents THEN aux ELSE std]
                /\ spin_unlock
                /\ clock_set_parent_return(t, <<0>>)
    /\ UNCHANGED <<treeVars, secVars, fnVars, coreVars, prim_reg, clk_div, gpclk_oe, fc_regs, fc_status,
                   caller, timer>>

rp1_clock_set_parent(t) == clock_set_parent_read(t) \/ clock_set_parent_write(t)

\* lines 1180-1189: the divider chosen, the lock taken
clock_srp_lock(t) ==
    /\ Idle(t, "rp1_clock_set_rate_and_parent")
    /\ \E a \in ClockRateInputs, parent \in ParentInputs(clock_data(t)) \cup {NO_PARENT} :
           op' = [op EXCEPT ![t] =
                     [fn |-> "rp1_clock_set_rate_and_parent", rate |-> a.rate,
                      parent_rate |-> a.parent_rate, index |-> parent]]
    /\ spin_lock(t)
    /\ Goto(t, "srp_div_write")
    /\ UNCHANGED <<treeVars, secVars, fnVars, coreVars, prim_reg, clk_ctrl, clk_div, gpclk_oe, fc_regs,
                   fc_status, caller, tmp, timer, fc_result, ret>>

\* lines 1180-1187: u32 div, replaced by 1 << 16 when it is 0
clock_srp_div(t) ==
    LET div == rp1_clock_choose_div(op[t].rate, op[t].parent_rate, clock_data(t))
    IN  IF div = DIV_ZERO THEN [int |-> 1, frac |-> 0] ELSE div

\* lines 1191-1198
clock_srp_div_write(t) ==
    /\ pc[t] = "srp_div_write"
    /\ LET div == clock_srp_div(t)
       IN  clk_div' = [clk_div EXCEPT ![caller[t].node] =
                          [div_int  |-> div.int,
                           div_frac |-> IF clock_data(t).div_frac_reg # 0
                                        THEN div.frac ELSE @.div_frac]]
    /\ spin_unlock
    /\ Goto(t, IF op[t].index # NO_PARENT THEN "srp_set_parent" ELSE "srp_measure")
    /\ UNCHANGED <<treeVars, secVars, fnVars, coreVars, prim_reg, clk_ctrl, gpclk_oe, fc_regs, fc_status,
                   caller, op, tmp, timer, fc_result, ret>>

\* line 1198 into lines 1142-1143
clock_srp_set_parent(t) ==
    /\ pc[t] = "srp_set_parent"
    /\ spin_lock(t)
    /\ SetTmp(t, clk_ctrl[caller[t].node])
    /\ Goto(t, "set_parent_write")
    /\ UNCHANGED <<treeVars, secVars, fnVars, coreVars, prim_reg, clk_ctrl, clk_div, gpclk_oe, fc_regs,
                   fc_status, caller, op, timer, fc_result, ret>>

\* lines 1200-1204: rp1_clock_is_on, then the measurement or the return
clock_srp_measure(t) ==
    /\ pc[t] = "srp_measure"
    /\ IF clk_ctrl[caller[t].node].enable
       THEN measure_call(t) /\ UNCHANGED <<op, tmp, ret>>
       ELSE Return(t, <<0>>) /\ UNCHANGED timer
    /\ UNCHANGED <<treeVars, secVars, fnVars, coreVars, bankVars, caller>>

rp1_clock_set_rate_and_parent(t) ==
    \/ clock_srp_lock(t)
    \/ clock_srp_div_write(t)
    \/ clock_srp_set_parent(t)
    \/ clock_srp_measure(t)

(***************************************************************************)
(* rp1_pll_core_on and rp1_pll_core_off.                                   *)
(***************************************************************************)
\* line 529
pll_core_on_lock(t) ==
    /\ Idle(t, "rp1_pll_core_on")
    /\ op' = [op EXCEPT ![t] = [fn |-> "rp1_pll_core_on"]]
    /\ spin_lock(t)
    /\ Goto(t, "core_on_write")
    /\ UNCHANGED <<treeVars, secVars, fnVars, coreVars, prim_reg, clk_ctrl, clk_div, gpclk_oe, fc_regs,
                   fc_status, caller, tmp, timer, fc_result, ret>>

\* lines 531-545
pll_core_on_write(t) ==
    /\ pc[t] = "core_on_write"
    /\ IF ~cs_reg.lock
       THEN /\ fbdiv_int_reg' = 20
            /\ fbdiv_frac_reg' = 0
            /\ cs_reg' = [cs_reg EXCEPT !.refdiv = 1]
       ELSE UNCHANGED <<fbdiv_int_reg, fbdiv_frac_reg, cs_reg>>
    /\ pwr_reg' = IF fbdiv_frac_reg' # 0 THEN 0 ELSE PLL_PWR_DSMPD
    /\ spin_unlock
    /\ Goto(t, "core_poll")
    /\ StartTimer(t)
    /\ UNCHANGED <<treeVars, secVars, fnVars, cached_rate, fatal, prim_reg, clk_ctrl, clk_div, gpclk_oe,
                   fc_regs, fc_status, caller, op, tmp, fc_result, ret>>

\* one evaluation of the loop of lines 546-553, and line 555
pll_core_on_poll(t) ==
    /\ pc[t] = "core_poll"
    /\ IF cs_reg.lock
       THEN Return(t, <<0>>)
       ELSE ktime_after(t) /\ Return(t, <<-ETIMEDOUT>>)
    /\ StartTimer(t)
    /\ UNCHANGED <<treeVars, secVars, fnVars, coreVars, bankVars, caller>>

rp1_pll_core_on(t) ==
    \/ pll_core_on_lock(t)
    \/ pll_core_on_write(t)
    \/ pll_core_on_poll(t)

\* line 564
pll_core_off_lock(t) ==
    /\ Idle(t, "rp1_pll_core_off")
    /\ op' = [op EXCEPT ![t] = [fn |-> "rp1_pll_core_off"]]
    /\ spin_lock(t)
    /\ Goto(t, "core_off_write")
    /\ UNCHANGED <<treeVars, secVars, fnVars, coreVars, prim_reg, clk_ctrl, clk_div, gpclk_oe, fc_regs,
                   fc_status, caller, tmp, timer, fc_result, ret>>

\* lines 565-567
pll_core_off_write(t) ==
    /\ pc[t] = "core_off_write"
    /\ pwr_reg' = 0
    /\ spin_unlock
    /\ ReturnVoid(t)
    /\ UNCHANGED <<treeVars, secVars, fnVars, cs_reg, fbdiv_int_reg, fbdiv_frac_reg, cached_rate, fatal,
                   prim_reg, clk_ctrl, clk_div, gpclk_oe, fc_regs, fc_status,
                   caller, timer>>

rp1_pll_core_off(t) == pll_core_off_lock(t) \/ pll_core_off_write(t)

\* the hardware asserts or drops PLL_CS_LOCK of a core some caller holds
hw_pll_lock ==
    /\ \E t \in Threads : caller[t].node = "pll_sys_core"
    /\ cs_reg' = [cs_reg EXCEPT !.lock = ~@]
    /\ UNCHANGED <<treeVars, secVars, fnVars, pwr_reg, fbdiv_int_reg, fbdiv_frac_reg, cached_rate, fatal,
                   bankVars, thrVars>>

(***************************************************************************)
(* Spec: two callers, each holding one node and calling some of its        *)
(* operations, any number of times, in any interleaving.                   *)
(***************************************************************************)
PllCaller == [node |-> "pll_sys", ops |-> {"rp1_pll_set_rate"}]

PhCaller == [node |-> "pll_sys_pri_ph", ops |-> {"rp1_pll_ph_on", "rp1_pll_ph_off"}]

GateCaller(clk) == [node |-> clk, ops |-> {"rp1_clock_on", "rp1_clock_off"}]

MuxCaller(clk) ==
    [node |-> clk, ops |-> {"rp1_clock_set_parent", "rp1_clock_set_rate_and_parent"}]

CoreCaller == [node |-> "pll_sys_core", ops |-> {"rp1_pll_core_on", "rp1_pll_core_off"}]

CallerPairs ==
    {<<PllCaller, PhCaller>>,
     <<GateCaller("clk_gp0"), GateCaller("clk_gp1")>>,
     <<MuxCaller("clk_gp0"), GateCaller("clk_gp0")>>,
     <<CoreCaller, CoreCaller>>,
     <<MuxCaller("clk_gp0"), CoreCaller>>}

\* the core as rp1_pll_core_set_rate(rate, parent_rate) leaves it
CoreAfterSetRate(rate, parent_rate) ==
    LET d == get_pll_core_divider(rate, parent_rate)
    IN  /\ cs_reg = [lock |-> FALSE, refdiv |-> 1]
        /\ pwr_reg = IF d.div_frac # 0 THEN 0 ELSE PLL_PWR_DSMPD
        /\ fbdiv_int_reg = d.div_int
        /\ fbdiv_frac_reg = d.div_frac
        /\ cached_rate = d.calc_rate
        /\ fatal = FALSE

Init ==
    /\ args = [op |-> "probe"]
    /\ retval = <<>>
    /\ \E p \in CallerPairs : caller = [t \in Threads |-> IF t = "t1" THEN p[1] ELSE p[2]]
    /\ CallersIdle
    /\ BankAtProbe
    /\ TreeAtProbe
    /\ SecAtProbe
    /\ \/ CoreAtProbe
       \/ /\ \E t \in Threads : caller[t].node = "pll_sys_core"
          /\ CoreAfterSetRate(1234567891, 50 * MHz)

ThreadNext(t) ==
    \/ rp1_pll_set_rate(t)
    \/ rp1_pll_ph_on(t)
    \/ rp1_pll_ph_off(t)
    \/ rp1_clock_on(t)
    \/ rp1_clock_off(t)
    \/ rp1_clock_set_parent(t)
    \/ rp1_clock_set_rate_and_parent(t)
    \/ rp1_pll_core_on(t)
    \/ rp1_pll_core_off(t)
    \/ clockman_measure_clock(t)

Next ==
    \/ \E t \in Threads : ThreadNext(t)
    \/ Tick
    \/ hw_fc_status
    \/ hw_pll_lock

Spec == Init /\ [][Next]_vars

\* C1: whenever no operation is in progress the register lock is free, so
\* that every operation that took the lock released it on its way out.
C1_LockFreeWhenIdle ==
    (\A t \in Threads : pc[t] = "idle") => regs_lock = "free"

\* C2: a caller evaluating a polling loop (RUNNING clear and DONE set in
\* clockman_measure_clock, lock detect in rp1_pll_core_on) does not hold the
\* register lock.
C2_NoLockWhilePolling ==
    \A t \in Threads : pc[t] \in PollPcs => regs_lock # t

\* the registers several nodes share, as the write of an operation must
\* leave them given what they hold when it writes
PrimAfter(t) ==
    CASE pc[t] = "pll_write" ->
           LET d == get_pll_prim_dividers(op[t].rate, op[t].parent_rate)
           IN  [prim_reg EXCEPT !.div1 = d[1], !.div2 = d[2]]
      [] pc[t] = "ph_on_write" ->
           [prim_reg EXCEPT !.ph_en = TRUE,
                            !.phase = bit_or(@, pll_desc_array[caller[t].node].phase)]
      [] pc[t] = "ph_off_write" -> [prim_reg EXCEPT !.ph_en = FALSE]
      [] OTHER -> prim_reg

OeAfter(t) ==
    IF pc[t] # "gate_oe_write" THEN gpclk_oe
    ELSE IF op[t].fn = "rp1_clock_on"
    THEN bit_or(gpclk_oe, clock_data(t).oe_mask)
    ELSE bit_andnot(gpclk_oe, clock_data(t).oe_mask)

\* C3: every write of PLL_SYS_PRIM by rp1_pll_set_rate, rp1_pll_ph_on or
\* rp1_pll_ph_off, and every write of GPCLK_OE_CTRL by rp1_clock_on or
\* rp1_clock_off, changes only the writer's own bits of what the register
\* holds at that moment, and nothing else changes these registers: no
\* completed operation's update is lost in any interleaving.
C3_NoLostUpdate ==
    [][/\ \A t \in Threads :
              pc'[t] # pc[t] => prim_reg' = PrimAfter(t) /\ gpclk_oe' = OeAfter(t)
       /\ (\A t \in Threads : pc'[t] = pc[t]) => UNCHANGED <<prim_reg, gpclk_oe>>]_vars

\* rp1_pll_set_rate is between its read and its write of a register that
\* holds the dividers of an earlier rp1_pll_set_rate and the enable bit of a
\* completed rp1_pll_ph_on
C3_Witness ==
    /\ pc["t1"] = "pll_write"
    /\ op["t1"].rate = 125 * MHz
    /\ prim_reg.div1 = 5
    /\ prim_reg.ph_en
    /\ pc["t2"] = "idle"

\* C5: rp1_pll_core_on returns 0 when it reads PLL_CS_LOCK set and
\* -ETIMEDOUT when it reads it clear after the timeout has passed; either
\* way the caller does not hold the register lock and is left as before the
\* call, so that the next rp1_pll_core_on starts like a first one.
C5_CoreEnableOutcome ==
    [][\A t \in Threads :
          (pc[t] = "core_poll" /\ pc'[t] # "core_poll") =>
              /\ IF cs_reg.lock THEN ret'[t] = <<0>>
                 ELSE timer[t] > TicksPerTimeout /\ ret'[t] = <<-ETIMEDOUT>>
              /\ regs_lock # t /\ regs_lock' # t
              /\ pc'[t] = "idle" /\ op'[t] = NoOp /\ timer'[t] = 0 /\ tmp'[t] = NoTmp]_vars

\* a second rp1_pll_core_on polls after the first returned -ETIMEDOUT
C5_Witness ==
    \E t \in Threads : pc[t] = "core_poll" /\ ret[t] = <<-ETIMEDOUT>>

(***************************************************************************)
(* SpecFair: one caller calling every operation of clk_gp0, scheduled      *)
(* fairly: a caller inside an operation goes on running, spin_lock is      *)
(* granted to a caller that keeps finding the lock free, and time passes.  *)
(* The hardware is under no obligation.                                    *)
(***************************************************************************)
ClockCaller(clk) ==
    [node |-> clk,
     ops |-> {"rp1_clock_on", "rp1_clock_off", "rp1_clock_set_parent",
              "rp1_clock_set_rate_and_parent"}]

InitFair ==
    /\ args = [op |-> "probe"]
    /\ retval = <<>>
    /\ caller = [t \in Threads |->
                    IF t = "t1" THEN ClockCaller("clk_gp0") ELSE NoCaller]
    /\ CallersIdle
    /\ BankAtProbe
    /\ TreeAtProbe
    /\ SecAtProbe
    /\ CoreAtProbe

ThreadNextFair(t) ==
    \/ rp1_clock_on(t)
    \/ rp1_clock_off(t)
    \/ rp1_clock_set_parent(t)
    \/ rp1_clock_set_rate_and_parent(t)
    \/ clockman_measure_clock(t)

NextFair ==
    \/ \E t \in Threads : ThreadNextFair(t)
    \/ Tick
    \/ hw_fc_status

\* a step of a caller that is inside an operation
Running(t) == pc[t] # "idle" /\ ThreadNextFair(t)

SpecFair ==
    /\ InitFair
    /\ [][NextFair]_vars
    /\ WF_vars(Tick)
    /\ \A t \in Threads : SF_vars(Running(t))

MeasurePcs ==
    {"fc_poll_running", "fc_lock_setup", "fc_setup", "fc_poll_done", "fc_lock_clear",
     "fc_clear"}

\* C4: a caller that has entered clockman_measure_clock leaves it again,
\* whatever the status register shows.
C4_MeasureAlwaysReturns ==
    \A t \in Threads : (pc[t] \in MeasurePcs) ~> (pc[t] \notin MeasurePcs)

\* the two polling loops of clockman_measure_clock end, with result 0 when
\* they end on the timeout
MeasurePollsEnd ==
    /\ \A t \in Threads :
           (pc[t] \in PollPcs) ~> (pc[t] \notin PollPcs)
    /\ [][\A t \in Threads :
              /\ (pc[t] = "fc_poll_running" /\ fc_status[fc_idx_of(t)].running
                  /\ pc'[t] # pc[t])
                    => timer[t] > TicksPerTimeout /\ fc_result'[t] = <<0>>
                       /\ pc'[t] = "fc_return"
              /\ (pc[t] = "fc_poll_done" /\ ~fc_status[fc_idx_of(t)].done
                  /\ pc'[t] # pc[t])
                    => timer[t] > TicksPerTimeout /\ fc_result'[t] = <<0>>
                       /\ pc'[t] = "fc_return"]_vars

(***************************************************************************)
(* Rate negotiation: rp1_clock_get_parent, rp1_clock_recalc_rate,          *)
(* calc_core_pll_rate, rp1_clock_choose_div_and_prate and                  *)
(* rp1_clock_determine_rate.  unsigned long is 64 bits wide (the RP1 is    *)
(* driven from a 64-bit host); values that can pass 2^31 are held as       *)
(* [hi, lo] with value hi * 2^16 + lo and lo < 2^16.                       *)
(***************************************************************************)
u64_norm(hi, lo) == [hi |-> hi + (lo \div FRAC_ONE), lo |-> lo % FRAC_ONE]

\* x * m for x < 2^31 and m < 2^14
u64_mul(x, m) == u64_norm((x \div FRAC_ONE) * m, (x % FRAC_ONE) * m)

u64_add(a, x) == u64_norm(a.hi + (x \div FRAC_ONE), a.lo + (x % FRAC_ONE))

u64_lt(a, b) == a.hi < b.hi \/ (a.hi = b.hi /\ a.lo < b.lo)

\* a - b for a >= b
u64_sub(a, b) ==
    IF a.lo >= b.lo THEN [hi |-> a.hi - b.hi, lo |-> a.lo - b.lo]
    ELSE [hi |-> a.hi - b.hi - 1, lo |-> a.lo + FRAC_ONE - b.lo]

\* a / d for d < 2^15, the quotient below 2^31
u64_div_small(a, d) ==
    (a.hi \div d) * FRAC_ONE + (((a.hi % d) * FRAC_ONE + a.lo) \div d)

\* a value below 2^31 as one number
u64_to_ulong(a) == a.hi * FRAC_ONE + a.lo

\* Long division by a divisor of more than 31 bits: the quotient and the
\* remainder of (r * 2^nbits + the low nbits of x) by d, for r < d.
RECURSIVE div_u64_step(_, _, _, _, _)
div_u64_step(r, q, x, nbits, d) ==
    IF nbits = 0 THEN [q |-> q, r |-> r]
    ELSE LET r2 == u64_norm(2 * r.hi, 2 * r.lo + BitOf(x, nbits - 1))
         IN  IF u64_lt(r2, d)
             THEN div_u64_step(r2, 2 * q, x, nbits - 1, d)
             ELSE div_u64_step(u64_sub(r2, d), 2 * q + 1, x, nbits - 1, d)

\* ((u64)rate << CLK_DIV_FRAC_BITS) / div, for the 16.16 divider div
\* (lines 1026-1027 and 1322-1323)
div_u64_shifted(rate, div) ==
    LET d  == [hi |-> div.int, lo |-> div.frac]
        s1 == div_u64_step([hi |-> 0, lo |-> 0], 0, rate, 31, d)
    IN  div_u64_step(s1.r, s1.q, 0, CLK_DIV_FRAC_BITS, d).q

\* ffs of the kernel: 1 + the index of the lowest set bit, 0 for 0
RECURSIVE ffs(_)
ffs(x) == IF x = 0 THEN 0 ELSE IF x % 2 = 1 THEN 1 ELSE 1 + ffs(x \div 2)

\* rp1_clock_get_parent on the registers sel (CLK_x_SEL) and ctrl (CLK_x_CTRL)
rp1_clock_get_parent(sel, ctrl, data) ==
    LET first  == IF sel # 0 THEN (ffs(sel) - 1) % 256
                  ELSE bit_and(ctrl.src, data.clk_src_mask)
        parent == IF first >= data.num_std_parents THEN AUX_SEL ELSE first
    IN  IF parent = AUX_SEL
        THEN (ctrl.auxsrc + data.num_std_parents) % 256
        ELSE parent

\* rp1_clock_recalc_rate on the divider registers div = [div_int, div_frac]
rp1_clock_recalc_rate(div, parent_rate) ==
    div_u64_shifted(parent_rate,
                    [int  |-> IF div.div_int = 0 THEN FRAC_ONE ELSE div.div_int,
                     frac |-> div.div_frac])

\* init.num_parents of a clock (lines 1668-1669)
num_parents(data) == data.num_std_parents + data.num_aux_parents

\* clk_hw_get_parent_by_index: the clock registered under the name of slot
\* index, "NULL" for a blank slot and for a name no clock is registered under
clk_hw_get_parent_by_index(data, index) ==
    IF index < num_parents(data) /\ data.parents[index + 1] \in DOMAIN clk_hw_rate
    THEN data.parents[index + 1]
    ELSE "NULL"

\* the handles rp1_clk_probe keeps (lines 2457-2460)
clk_i2s == "clk_i2s"

clk_xosc == clk_desc_array[clk_i2s].parents[1]

clk_audio == clk_desc_array[clk_i2s].parents[2]

\* clk_hw_get_parent(clk_audio): .source_pll of pll_audio (line 1782)
clk_audio_parent == "pll_audio_core"

(***************************************************************************)
(* calc_core_pll_rate.                                                     *)
(***************************************************************************)
prim_divs ==
    <<2, 3, 4, 5, 6, 7, 8, 9, 10, 12, 14, 15, 16,
      18, 20, 21, 24, 25, 28, 30, 35, 36, 42, 49>>

\* the largest secondary divisor the search tries (line 1236)
DIV_CLK_MAX == 256

\* core_max = 2400000000
core_max == u64_mul(1200 * MHz, 2)

\* core_min = xosc_rate * 16
core_min(xosc_rate) == u64_mul(xosc_rate, 16)

\* the test of line 1239 that replaces the best rate
core_rate_improves_always(core_rate, best_rate) == TRUE

core_rate_improves(core_rate, best_rate) == u64_lt(core_rate, best_rate)

\* core_rate >= core_min (line 1238) for core_rate = target_rate * div_clk * div_prim
reaches_core_min(target_rate, div_clk, div_prim, xosc_rate) ==
    ~u64_lt(u64_mul(target_rate, div_clk * div_prim), core_min(xosc_rate))

\* the inner loop (lines 1236-1246): the div_clk at which it breaks, 0 when
\* the loop runs out.  The loop breaks at the least div_clk whose core rate
\* target_rate * div_clk * div_prim reaches core_min: 1 when the first one
\* does, and otherwise core_min / (target_rate * div_prim) rounded up
first_div_clk(target_rate, div_prim, xosc_rate) ==
    IF target_rate = 0 THEN 0
    ELSE IF reaches_core_min(target_rate, 1, div_prim, xosc_rate) THEN 1
    ELSE LET step    == target_rate * div_prim
             div_clk == (u64_to_ulong(core_min(xosc_rate)) + step - 1) \div step
         IN  IF div_clk > DIV_CLK_MAX THEN 0 ELSE div_clk

\* the outer loop (lines 1232-1247) from table entry i on
RECURSIVE core_search(_, _, _, _)
core_search(target_rate, xosc_rate, i, best) ==
    IF i > Len(prim_divs) THEN best
    ELSE LET div_prim  == prim_divs[i]
             div_clk   == first_div_clk(target_rate, div_prim, xosc_rate)
             core_rate == u64_mul(target_rate, div_clk * div_prim)
         IN  IF div_clk # 0 /\ core_rate_improves(core_rate, best.rate)
             THEN core_search(target_rate, xosc_rate, i + 1,
                              [rate |-> core_rate, div_prim |-> div_prim,
                               div_clk |-> div_clk])
             ELSE core_search(target_rate, xosc_rate, i + 1, best)

\* div = ((best_rate << 24) + xosc_rate / 2) / xosc_rate (line 1250)
core_fbdiv(best_rate, xosc_rate) ==
    LET half == xosc_rate \div 2
        top  == u64_add(best_rate, half \div (2 ^ 24))
        s1   == shift_divide(0, 0, top.hi, 16, xosc_rate)
        s2   == shift_divide(s1.r, s1.q, top.lo, 16, xosc_rate)
    IN  shift_divide(s2.r, s2.q, half % (2 ^ 24), 24, xosc_rate).q

\* core_rate of line 1253, for div_int = div >> 24 and div_frac = div % (1 << 24)
fbdiv_core_rate(div, xosc_rate) ==
    u64_add(u64_mul(xosc_rate, div \div (2 ^ 24)),
            mul_frac24_round(xosc_rate, 0, div % (2 ^ 24)))

\* lines 1249-1263 once the loops have left best: the returned core_rate
\* (a u64 as [hi, lo]) and the divisors stored through pdiv_prim and
\* pdiv_clk; best_rate is the local
core_pll_result(best, xosc_rate) ==
    [core_rate |-> IF u64_lt(best.rate, core_max)
                   THEN fbdiv_core_rate(core_fbdiv(best.rate, xosc_rate), xosc_rate)
                   ELSE [hi |-> 0, lo |-> 0],
     best_rate |-> best.rate,
     div_prim  |-> best.div_prim,
     div_clk   |-> best.div_clk]

calc_core_pll_rate(target_rate, xosc_rate) ==
    core_pll_result(core_search(target_rate, xosc_rate, 1,
                                [rate |-> u64_add(core_max, 1), div_prim |-> 1,
                                 div_clk |-> 1]),
                    xosc_rate)

(***************************************************************************)
(* rp1_clock_choose_div_and_prate and rp1_clock_determine_rate.  tree is   *)
(* rp1_clk_chg_tree as the call finds it; the result carries it as the     *)
(* call leaves it.                                                         *)
(***************************************************************************)
\* one pass of the loop of lines 1281-1294, at entry i: <<[prate,
\* calc_rate]>> when the pass returns, <<>> when it goes on
chg_tree_entry(tree, i, node, parent, rate) ==
    IF tree[i].hw = node /\ tree[i].new_rate = rate
    THEN IF i = 2
         THEN <<[prate |-> clk_hw_rate[clk_xosc], calc_rate |-> tree[i].new_rate]>>
         ELSE IF parent = tree[i + 1].hw
         THEN <<[prate |-> tree[i + 1].new_rate, calc_rate |-> tree[i].new_rate]>>
         ELSE <<>>
    ELSE <<>>

\* the loop of lines 1281-1294 over the three entries: what the first pass
\* that returns hands back, <<>> when the loop ends without a return
chg_tree_lookup(tree, node, parent, rate) ==
    LET e0 == chg_tree_entry(tree, 0, node, parent, rate)
        e1 == chg_tree_entry(tree, 1, node, parent, rate)
        e2 == chg_tree_entry(tree, 2, node, parent, rate)
    IN  IF e0 # <<>> THEN e0 ELSE IF e1 # <<>> THEN e1 ELSE e2

\* the plan with its entries most-upstream first
chain_plan_core_first(c) ==
    LET audio_rate == u64_div_small(u64_add(c.core_rate, c.div_prim \div 2), c.div_prim)
        i2s_rate   == DIV_ROUND_CLOSEST(audio_rate, c.div_clk)
    IN  [prate     |-> audio_rate,
         calc_rate |-> i2s_rate,
         tree      |-> [i \in 0..2 |->
                           CASE i = 2 -> [hw |-> clk_i2s, new_rate |-> i2s_rate]
                             [] i = 1 -> [hw |-> clk_audio, new_rate |-> audio_rate]
                             [] i = 0 -> [hw |-> clk_audio_parent,
                                          new_rate |-> u64_to_ulong(c.core_rate)]]]

\* lines 1301-1310 for the result c of calc_core_pll_rate: the rates of the
\* audio chain and the plan written to rp1_clk_chg_tree
chain_plan(c) ==
    LET audio_rate == u64_div_small(u64_add(c.core_rate, c.div_prim \div 2), c.div_prim)
        i2s_rate   == DIV_ROUND_CLOSEST(audio_rate, c.div_clk)
    IN  [prate     |-> audio_rate,
         calc_rate |-> i2s_rate,
         tree      |-> [i \in 0..2 |->
                           CASE i = 0 -> [hw |-> clk_i2s, new_rate |-> i2s_rate]
                             [] i = 1 -> [hw |-> clk_audio, new_rate |-> audio_rate]
                             [] i = 2 -> [hw |-> clk_audio_parent,
                                          new_rate |-> u64_to_ulong(c.core_rate)]]]

\* lines 1296-1311: the audio chain retuned for an i2s rate
chain_retune(rate) == chain_plan(calc_core_pll_rate(rate, clk_hw_rate[clk_xosc]))

\* the test of line 1330
exceeds_max_freq_never(calc_rate, data) == FALSE

exceeds_max_freq(calc_rate, data) == calc_rate > data.max_freq

\* lines 1319-1333 for the divider div of line 1317
plain_calc_rate(div, prate, data) ==
    IF div = DIV_ZERO THEN 0
    ELSE IF exceeds_max_freq(div_u64_shifted(prate, div), data) THEN 0
    ELSE div_u64_shifted(prate, div)

\* lines 1313-1333: the divider path on the parent's current rate
plain_div_and_prate(rate, prate, data) ==
    plain_calc_rate(rp1_clock_choose_div(rate, prate, data), prate, data)

\* rp1_clock_choose_div_and_prate for the parent hw of index parent_idx
choose_div_and_prate_of(node, parent, rate, tree) ==
    LET reused == chg_tree_lookup(tree, node, parent, rate)
    IN  IF reused # <<>>
        THEN [prate |-> reused[1].prate, calc_rate |-> reused[1].calc_rate,
              tree |-> tree]
        ELSE IF node = clk_i2s /\ parent = clk_audio
        THEN chain_retune(rate)
        ELSE [prate     |-> clk_hw_rate[parent],
              calc_rate |-> plain_div_and_prate(rate, clk_hw_rate[parent],
                                                clk_desc_array[node]),
              tree      |-> tree]

rp1_clock_choose_div_and_prate(node, parent_idx, rate, tree) ==
    choose_div_and_prate_of(node,
                            clk_hw_get_parent_by_index(clk_desc_array[node], parent_idx),
                            rate, tree)

\* ULONG_MAX of best_rate_diff: the largest integer of the model, above
\* every difference of two rates
ULONG_MAX == 2147483647

\* the test of line 1373 that replaces the best candidate
rate_diff_closer_or_same(rate_diff, best_rate_diff) == rate_diff <= best_rate_diff

rate_diff_closer(rate_diff, best_rate_diff) == rate_diff < best_rate_diff

\* best_parent = NULL, best_rate = 0, best_prate = 0 (lines 1339-1342)
NoBest ==
    [index |-> NO_PARENT, parent |-> "NULL", prate |-> 0, rate |-> 0,
     rate_diff |-> ULONG_MAX]

\* lines 1373-1381 for candidate i, the non-NULL parent, and the result c
\* of rp1_clock_choose_div_and_prate: the best candidate and the plan after
\* the pass, and whether the pass breaks the loop
candidate_outcome(i, parent, rate, best, c) ==
    IF rate_diff_closer(ABS_DIFF(c.calc_rate, rate), best.rate_diff)
    THEN [best  |-> [index |-> i, parent |-> parent, prate |-> c.prate,
                     rate |-> c.calc_rate,
                     rate_diff |-> ABS_DIFF(c.calc_rate, rate)],
          tree  |-> c.tree,
          exact |-> ABS_DIFF(c.calc_rate, rate) = 0]
    ELSE [best |-> best, tree |-> c.tree, exact |-> FALSE]

\* one pass of the loop of lines 1368-1382, for candidate i
determine_candidate(node, rate, i, best, tree) ==
    IF clk_hw_get_parent_by_index(clk_desc_array[node], i) = "NULL"
    THEN [best |-> best, tree |-> tree, exact |-> FALSE]
    ELSE candidate_outcome(i, clk_hw_get_parent_by_index(clk_desc_array[node], i),
                           rate, best,
                           rp1_clock_choose_div_and_prate(node, i, rate, tree))

\* the loop of lines 1368-1382 from candidate i on, p being the outcome of
\* the pass before (for candidate i - 1): the best candidate, the plan and
\* the value of i when the loop is left
RECURSIVE determine_loop(_, _, _, _)
determine_loop(node, rate, i, p) ==
    IF p.exact THEN [best |-> p.best, tree |-> p.tree, i |-> i - 1]
    ELSE IF i >= num_parents(clk_desc_array[node])
    THEN [best |-> p.best, tree |-> p.tree, i |-> i]
    ELSE determine_loop(node, rate, i + 1,
                        determine_candidate(node, rate, i, p.best, p.tree))

\* the whole loop, entered with best_rate_diff = ULONG_MAX
determine_search(node, rate, tree) ==
    determine_loop(node, rate, 0, [best |-> NoBest, tree |-> tree, exact |-> FALSE])

\* what a determine_rate call hands back: its return value, the three
\* fields of req it fills, the index of best_parent_hw, the plan, and the
\* loop variable at the return (NO_PARENT when the loop was not entered)
determine_result(err, req_rate, best, tree, i) ==
    [ret |-> err, rate |-> req_rate, best_parent_hw |-> best.parent,
     best_parent_rate |-> best.prate, index |-> best.index, tree |-> tree,
     last |-> i]

\* lines 1384-1394 for the outcome s of the loop
determine_best(rate, s) ==
    IF s.best.rate = 0
    THEN determine_result(-EINVAL, rate, NoBest, s.tree, s.i)
    ELSE determine_result(0, s.best.rate, s.best, s.tree, s.i)

\* lines 1357-1365 for the current parent, of index cur, and the result c
\* of rp1_clock_choose_div_and_prate on it, and the loop when they fall
\* through
determine_current(node, rate, cur, parent, c) ==
    IF c.calc_rate > 0
    THEN determine_result(0, c.calc_rate,
                          [index |-> cur, parent |-> parent, prate |-> c.prate],
                          c.tree, NO_PARENT)
    ELSE determine_best(rate, determine_search(node, rate, c.tree))

\* rp1_clock_determine_rate for the index cur that rp1_clock_get_parent gives
determine_rate_from(node, rate, cur, tree) ==
    IF /\ clk_desc_array[node].no_reparent
       /\ clk_hw_get_parent_by_index(clk_desc_array[node], cur) # "NULL"
    THEN determine_current(node, rate, cur,
                           clk_hw_get_parent_by_index(clk_desc_array[node], cur),
                           rp1_clock_choose_div_and_prate(node, cur, rate, tree))
    ELSE determine_best(rate, determine_search(node, rate, tree))

\* rp1_clock_determine_rate on the registers sel and ctrl of the node
rp1_clock_determine_rate(node, rate, sel, ctrl, tree) ==
    determine_rate_from(node, rate,
                        rp1_clock_get_parent(sel, ctrl, clk_desc_array[node]), tree)

(***************************************************************************)
(* rp1_clock_set_parent and rp1_clock_set_rate_and_parent as one call      *)
(* each, for a host that runs the operations of a node one after the       *)
(* other.                                                                  *)
(***************************************************************************)
\* the AUXSRC field written for an auxiliary parent (line 1151)
aux_field_zero(index, data) == 0

aux_field(index, data) == index - data.num_std_parents

\* CLK_x_CTRL as lines 1145-1160 leave it, for index < num_parents
set_parent_ctrl(ctrl, index, data) ==
    IF index >= data.num_std_parents
    THEN [ctrl EXCEPT !.auxsrc = aux_field(index, data) % 32,
                      !.src = set_register_field(@, AUX_SEL, data.clk_src_mask)]
    ELSE [ctrl EXCEPT !.src = set_register_field(@, index, data.clk_src_mask)]

\* u32 div of lines 1180-1187
set_rate_div(rate, parent_rate, data) ==
    LET div == rp1_clock_choose_div(rate, parent_rate, data)
    IN  IF div = DIV_ZERO THEN [int |-> 1, frac |-> 0] ELSE div

\* CLK_x_DIV_INT and CLK_x_DIV_FRAC as lines 1191-1193 leave them
set_rate_regs(old, rate, parent_rate, data) ==
    LET div == set_rate_div(rate, parent_rate, data)
    IN  [div_int  |-> div.int,
         div_frac |-> IF data.div_frac_reg # 0 THEN div.frac ELSE old.div_frac]


\* the value rp1_clock_set_rate_and_parent returns (line 1204)
set_rate_result(div) == 0

(***************************************************************************)
(* SpecRate: one host calling the rate and parent operations of one clock, *)
(* calc_core_pll_rate and the round_rate operations of the PLLs, on a tree *)
(* whose other clocks run at fixed rates.  The host of a behaviour uses    *)
(* one group of operations; the clock is never enabled.                    *)
(***************************************************************************)
host == "t1"

rate_node == caller[host].node

HostCalls(fn) == fn \in caller[host].ops

RateNodes == {"clk_sys", "clk_uart", "clk_pwm0", "clk_i2s", "clk_mipi0_dpi"}

NegotiationCaller(clk) ==
    [node |-> clk, ops |-> {"rp1_clock_determine_rate",
                            "rp1_clock_set_rate_and_parent",
                            "rp1_clock_recalc_rate"}]

ParentCaller(clk) ==
    [node |-> clk, ops |-> {"rp1_clock_set_parent", "rp1_clock_get_parent"}]

RoundRateCaller(clk) ==
    [node |-> clk, ops |-> {"calc_core_pll_rate", "rp1_clock_determine_rate",
                            "rp1_pll_round_rate", "rp1_pll_ph_round_rate",
                            "rp1_pll_core_round_rate", "rp1_pll_divider_round_rate",
                            "rp1_varsrc_round_rate"}]

\* a coordinated retune (negotiation, then the rate applied) and the
\* requests that follow it
RetuneCaller(clk) ==
    [node |-> clk, ops |-> {"rp1_clock_determine_rate", "rp1_clock_set_rate_and_parent",
                            "rp1_pll_round_rate"}]

RateCallers ==
    {NegotiationCaller(c) : c \in RateNodes} \cup {ParentCaller(c) : c \in RateNodes}
    \cup {RoundRateCaller(clk_i2s), RetuneCaller(clk_i2s)}

\* rates of the clocks registered when the host runs: the reference, the
\* PLL outputs, and the DSI byte clock source, which is registered at rate 0
RateTrees ==
    {[xosc |-> 50 * MHz, pll_sys |-> 200 * MHz, pll_sys_pri_ph |-> 100 * MHz,
      pll_video |-> 160 * MHz, pll_video_sec |-> 80 * MHz,
      pll_audio |-> 61440 * KHz, pll_audio_sec |-> 153600 * KHz,
      clksrc_mipi0_dsi_byteclk |-> byteclk] : byteclk \in {0, 75 * MHz}}

\* target rates of a determine_rate call
RateTargets(node) ==
    CASE node = "clk_sys"       -> {0, 500, 1666, 40 * MHz, 200 * MHz, 250 * MHz}
      [] node = "clk_uart"      -> {50 * KHz, 45 * MHz, 48 * MHz, 50 * MHz, 100 * MHz}
      [] node = "clk_pwm0"      -> {999, 1 * MHz, 30 * MHz, 76800 * KHz, 80 * MHz}
      [] node = "clk_i2s"       -> {1 * KHz, 64 * KHz, 1536 * KHz, 12288 * KHz,
                                    50 * MHz, 100 * MHz}
      [] node = "clk_mipi0_dpi" -> {100 * KHz, 27 * MHz, 100 * MHz, 250 * MHz}

\* (rate, parent_rate, parent) of a set_rate_and_parent call that does not
\* follow a determine_rate call
SetRateInputs ==
    [rate : {0, 25 * MHz, 100 * MHz}, parent_rate : {50 * MHz}, parent : {NO_PARENT, 3}]

\* target rates of a calc_core_pll_rate call
CoreTargets ==
    {0, 1 * KHz, 64 * KHz, 1536 * KHz, 12288 * KHz, 48 * MHz, 100 * MHz,
     400 * MHz, 1000 * MHz, 1200 * MHz, 1500 * MHz}

InitRate ==
    /\ args = [op |-> "probe"]
    /\ retval = <<>>
    /\ CoreAtProbe
    /\ \E c \in RateCallers :
           caller = [t \in Threads |-> IF t = host THEN c ELSE NoCaller]
    /\ CallersIdle
    /\ regs_lock = "free"
    /\ prim_reg = [div1 |-> 0, div2 |-> 0, ph_en |-> FALSE, phase |-> 0]
    /\ clk_ctrl = [c \in RateNodes |-> [enable |-> FALSE, src |-> 0, auxsrc |-> 0]]
    /\ clk_div = [c \in RateNodes |-> [div_int |-> 0, div_frac |-> 0]]
    /\ gpclk_oe = 0
    /\ fc_regs = [i \in FcBlocks |->
                     [ref_khz |-> 0, min_khz |-> 0, max_khz |-> 0,
                      interval |-> 0, delay |-> 0, src |-> 0]]
    /\ fc_status = [i \in FcBlocks |-> [running |-> FALSE, done |-> FALSE]]
    /\ rp1_clk_chg_tree = [i \in 0..2 |-> [hw |-> "NULL", new_rate |-> 0]]
    /\ clk_sel = [c \in RateNodes |-> 0]
    /\ clk_hw_rate \in RateTrees
    /\ SecAtProbe

\* what a computation of rates leaves alone: every register and the lock
negotiation_takes_lock ==
    /\ regs_lock' = host
    /\ UNCHANGED <<coreVars, prim_reg, clk_ctrl, clk_div, gpclk_oe, fc_regs, fc_status,
                   thrVars, clk_sel, clk_hw_rate, secVars>>

negotiation_frame == UNCHANGED <<coreVars, bankVars, thrVars, clk_sel, clk_hw_rate, secVars>>

call_rp1_clock_determine_rate ==
    /\ HostCalls("rp1_clock_determine_rate")
    /\ \E rate \in RateTargets(rate_node) :
           /\ args' = [op |-> "determine_rate", node |-> rate_node, rate |-> rate,
                       tree |-> rp1_clk_chg_tree]
           /\ retval' = <<rp1_clock_determine_rate(rate_node, rate, clk_sel[rate_node],
                                                   clk_ctrl[rate_node],
                                                   rp1_clk_chg_tree)>>
           /\ rp1_clk_chg_tree' = retval'[1].tree
    /\ negotiation_frame

\* the whole of rp1_clock_set_rate_and_parent for a clock that is not
\* enabled (rp1_clock_is_on of line 1201 is false) and a declared parent
set_rate_and_parent(rate, parent_rate, parent, determined) ==
    LET data == clk_desc_array[rate_node]
    IN  /\ spin_lock_free
        /\ ~clk_ctrl[rate_node].enable
        /\ args' = [op |-> "set_rate_and_parent", node |-> rate_node, rate |-> rate,
                    parent_rate |-> parent_rate, parent |-> parent,
                    determined |-> determined]
        /\ clk_div' = [clk_div EXCEPT ![rate_node] =
                          set_rate_regs(@, rate, parent_rate, data)]
        /\ clk_ctrl' = [clk_ctrl EXCEPT ![rate_node] =
                           IF parent # NO_PARENT
                           THEN set_parent_ctrl(@, parent, data) ELSE @]
        /\ retval' = <<[ret |-> set_rate_result(
                                   rp1_clock_choose_div(rate, parent_rate, data))]>>
        /\ UNCHANGED <<coreVars, regs_lock, prim_reg, gpclk_oe, fc_regs, fc_status,
                       thrVars, treeVars, secVars>>

call_rp1_clock_set_rate_and_parent ==
    /\ HostCalls("rp1_clock_set_rate_and_parent")
    /\ \/ /\ args.op = "determine_rate"
          /\ retval[1].ret = 0
          /\ set_rate_and_parent(retval[1].rate, retval[1].best_parent_rate,
                                 retval[1].index, TRUE)
       \/ \E a \in SetRateInputs :
              set_rate_and_parent(a.rate, a.parent_rate, a.parent, FALSE)

call_rp1_clock_recalc_rate ==
    /\ HostCalls("rp1_clock_recalc_rate")
    /\ args.op = "set_rate_and_parent"
    /\ args' = [op |-> "recalc_rate", node |-> rate_node,
                parent_rate |-> args.parent_rate, rate |-> args.rate,
                determined |-> args.determined]
    /\ retval' = <<[rate |-> rp1_clock_recalc_rate(clk_div[rate_node],
                                                   args.parent_rate)]>>
    /\ UNCHANGED <<coreVars, bankVars, thrVars, treeVars, secVars>>

\* the whole of rp1_clock_set_parent for a declared index; sel is the value
\* read back at line 1165
call_rp1_clock_set_parent ==
    /\ HostCalls("rp1_clock_set_parent")
    /\ spin_lock_free
    /\ \E index \in 0..(num_parents(clk_desc_array[rate_node]) - 1) :
           LET data == clk_desc_array[rate_node]
               ctrl == set_parent_ctrl(clk_ctrl[rate_node], index, data)
           IN  /\ args' = [op |-> "set_parent", node |-> rate_node, index |-> index]
               /\ clk_ctrl' = [clk_ctrl EXCEPT ![rate_node] = ctrl]
               /\ retval' = <<[ret |-> 0,
                               sel |-> rp1_clock_get_parent(clk_sel[rate_node],
                                                            ctrl, data)]>>
    /\ UNCHANGED <<coreVars, regs_lock, prim_reg, clk_div, gpclk_oe, fc_regs,
                   fc_status, thrVars, treeVars, secVars>>

call_rp1_clock_get_parent ==
    /\ HostCalls("rp1_clock_get_parent")
    /\ args' = [op |-> "get_parent", node |-> rate_node, sel |-> clk_sel[rate_node],
                set |-> IF args.op = "set_parent" THEN <<args.index>> ELSE <<>>]
    /\ retval' = <<[parent |-> rp1_clock_get_parent(clk_sel[rate_node],
                                                    clk_ctrl[rate_node],
                                                    clk_desc_array[rate_node])]>>
    /\ UNCHANGED <<coreVars, bankVars, thrVars, treeVars, secVars>>

\* the mux of a clock settles on the source CLK_x_CTRL selects: CLK_x_SEL
\* shows it one-hot
hw_clk_sel ==
    /\ HostCalls("rp1_clock_set_parent")
    /\ LET data == clk_desc_array[rate_node]
           src  == bit_and(clk_ctrl[rate_node].src, data.clk_src_mask)
       IN  /\ clk_sel[rate_node] # 2 ^ src
           /\ clk_sel' = [clk_sel EXCEPT ![rate_node] = 2 ^ src]
    /\ UNCHANGED <<fnVars, coreVars, bankVars, thrVars, rp1_clk_chg_tree, clk_hw_rate, secVars>>

call_calc_core_pll_rate ==
    /\ HostCalls("calc_core_pll_rate")
    /\ \E target_rate \in CoreTargets :
           /\ args' = [op |-> "calc_core_pll_rate", target_rate |-> target_rate]
           /\ retval' = <<calc_core_pll_rate(target_rate, clk_hw_rate[clk_xosc])>>
    /\ UNCHANGED rp1_clk_chg_tree
    /\ negotiation_frame

\* rp1_pll_round_rate of the PLL hw: the rate returned and *parent_rate
rp1_pll_round_rate(hw, rate, parent_rate) ==
    LET chg    == rp1_clk_chg_tree[1]
        prate  == IF chg.hw = hw /\ chg.new_rate = rate
                  THEN rp1_clk_chg_tree[2].new_rate ELSE parent_rate
        d      == get_pll_prim_dividers(rate, prate)
    IN  [rate |-> DIV_ROUND_CLOSEST(prate, d[1] * d[2]), parent_rate |-> prate]

\* (rate, *parent_rate) of a round_rate call on a PLL: the planned rate of
\* pll_audio when there is one, and a rate of pll_sys
PllRoundInputs ==
    {[rate |-> rp1_clk_chg_tree[1].new_rate, parent_rate |-> 1536 * MHz],
     [rate |-> 200 * MHz, parent_rate |-> 1000 * MHz]}

call_rp1_pll_round_rate ==
    /\ HostCalls("rp1_pll_round_rate")
    /\ \E hw \in {"pll_sys", "pll_audio"}, a \in PllRoundInputs :
           /\ a.rate > 0
           /\ args' = [op |-> "pll_round_rate", hw |-> hw, rate |-> a.rate,
                       parent_rate |-> a.parent_rate]
           /\ retval' = <<rp1_pll_round_rate(hw, a.rate, a.parent_rate)>>
    /\ UNCHANGED rp1_clk_chg_tree
    /\ negotiation_frame

\* .fixed_divider of pll_sys_pri_ph and pll_audio_pri_ph (lines 1797, 1804)
fixed_divider == 2

rp1_pll_ph_round_rate(rate, parent_rate) == parent_rate \div fixed_divider

call_rp1_pll_ph_round_rate ==
    /\ HostCalls("rp1_pll_ph_round_rate")
    /\ \E parent_rate \in {200 * MHz, 61440 * KHz} :
           /\ args' = [op |-> "pll_ph_round_rate", rate |-> 100 * MHz,
                       parent_rate |-> parent_rate]
           /\ retval' = <<rp1_pll_ph_round_rate(100 * MHz, parent_rate)>>
    /\ UNCHANGED rp1_clk_chg_tree
    /\ negotiation_frame

\* the divisor each value of the PLL_SEC_DIV field selects
pll_sec_div_table == [val \in 0..31 |-> IF val \in 8..19 THEN val ELSE 19]

\* rp1_pll_divider_round_rate hands the call to the divider of the clock
\* framework, configured with pll_sec_div_table and CLK_DIVIDER_ROUND_CLOSEST:
\* the rates that divider can return are the parent rate over a divisor of
\* the table
rp1_pll_divider_round_rate(rate, parent_rate) ==
    {DIV_ROUND_CLOSEST(parent_rate, pll_sec_div_table[val]) : val \in 0..31}
    \cup {parent_rate \div pll_sec_div_table[val] : val \in 0..31}

call_rp1_pll_divider_round_rate ==
    /\ HostCalls("rp1_pll_divider_round_rate")
    /\ \E rate \in {80 * MHz, 153600 * KHz}, parent_rate \in {1536 * MHz} :
           /\ args' = [op |-> "pll_divider_round_rate", rate |-> rate,
                       parent_rate |-> parent_rate]
           /\ \E r \in rp1_pll_divider_round_rate(rate, parent_rate) :
                  retval' = <<r>>
    /\ UNCHANGED rp1_clk_chg_tree
    /\ negotiation_frame

rp1_varsrc_round_rate(rate, parent_rate) == rate

call_rp1_varsrc_round_rate ==
    /\ HostCalls("rp1_varsrc_round_rate")
    /\ \E rate \in {0, 75 * MHz} :
           /\ args' = [op |-> "varsrc_round_rate", rate |-> rate]
           /\ retval' = <<rp1_varsrc_round_rate(rate, 0)>>
    /\ UNCHANGED rp1_clk_chg_tree
    /\ negotiation_frame

NextRate ==
    \/ call_rp1_clock_determine_rate
    \/ call_rp1_clock_set_rate_and_parent
    \/ call_rp1_clock_recalc_rate
    \/ call_rp1_clock_set_parent
    \/ call_rp1_clock_get_parent
    \/ hw_clk_sel
    \/ call_calc_core_pll_rate
    \/ call_rp1_pll_round_rate
    \/ call_rp1_pll_ph_round_rate
    \/ call_rp1_pll_divider_round_rate
    \/ call_rp1_varsrc_round_rate
    \/ (HostCalls("rp1_pll_core_round_rate") /\ call_rp1_pll_core_round_rate)

SpecRate == InitRate /\ [][NextRate]_vars

(***************************************************************************)
(* Claims about rate negotiation, under SpecRate.                          *)
(***************************************************************************)
\* the determine_rate call that has just returned
Determined == args.op = "determine_rate"

\* what candidate i of that call achieves: rp1_clock_choose_div_and_prate
\* on the plan the call found
Achieved(i) == rp1_clock_choose_div_and_prate(args.node, i, args.rate, args.tree)

\* |achieved - target| of candidate i
Distance(i) == ABS_DIFF(Achieved(i).calc_rate, args.rate)

\* the declared parents of the node that are registered clocks
Declared ==
    {i \in 0..(num_parents(clk_desc_array[args.node]) - 1) :
        clk_hw_get_parent_by_index(clk_desc_array[args.node], i) # "NULL"}

\* the declared candidates with a nonzero achievable rate
Candidates == {i \in Declared : Achieved(i).calc_rate # 0}

C11_ExactWitness ==
    /\ Determined /\ ~clk_desc_array[args.node].no_reparent /\ retval[1].ret = 0
    /\ Distance(retval[1].index) = 0
    /\ retval[1].last < num_parents(clk_desc_array[args.node]) - 1
    /\ \E j \in Candidates : j > retval[1].last

\* C12: determine_rate fails if and only if every parent candidate yields a
\* zero achievable rate: with a declared candidate of nonzero achievable
\* rate it succeeds and returns a nonzero rate.
C12_FailsOnlyWhenAllZero ==
    Determined =>
        /\ retval[1].ret # 0 <=> Candidates = {}
        /\ retval[1].ret = 0 => retval[1].rate # 0

\* the half of C12 the loop keeps: a call all of whose candidates yield
\* zero fails, and a call that succeeds returns a nonzero rate
C12_AllZeroFails ==
    Determined =>
        /\ Candidates = {} => retval[1].ret = -EINVAL
        /\ retval[1].ret = 0 => retval[1].rate # 0

\* the parent index rp1_clock_get_parent reads for the node of the call
CurrentParent ==
    rp1_clock_get_parent(clk_sel[args.node], clk_ctrl[args.node],
                         clk_desc_array[args.node])

\* C13: on a node marked do-not-reparent, determine_rate tries only the
\* current parent of the node: whatever the target, the parent it returns
\* is the one get_parent reads, never another candidate.
C13_NoReparentKeepsParent ==
    (Determined /\ clk_desc_array[args.node].no_reparent /\ retval[1].ret = 0) =>
        retval[1].index = CurrentParent

\* what the code keeps of C13: when the current parent is a registered
\* clock with a nonzero achievable rate, it is the parent returned
C13_CurrentParentWhenNonzero ==
    (/\ Determined /\ clk_desc_array[args.node].no_reparent
     /\ CurrentParent \in Candidates) =>
        /\ retval[1].ret = 0
        /\ retval[1].index = CurrentParent
        /\ retval[1].last = NO_PARENT

\* C14: determine_rate either fails or returns an achievable rate that does
\* not exceed max_freq of the node, for every node, target and plan, on the
\* plain divider path, the plan-reuse path and the chain-retune path.
C14_OverclockGuard ==
    (Determined /\ retval[1].ret = 0) =>
        retval[1].rate <= clk_desc_array[args.node].max_freq

\* the path of C14 that has the guard: a rate returned for a parent other
\* than the one of the audio chain does not exceed max_freq
C14_PlainPathGuard ==
    (/\ Determined /\ retval[1].ret = 0
     /\ ~(args.node = clk_i2s /\ retval[1].best_parent_hw = clk_audio)) =>
        retval[1].rate <= clk_desc_array[args.node].max_freq

\* the recalc_rate call that ends a round trip: it follows the
\* set_rate_and_parent call given the rate, parent and parent rate a
\* determine_rate call returned, which args.rate still holds
RoundTripped == args.op = "recalc_rate" /\ args.determined

\* the 16.16 divider the registers of the node hold, as recalc_rate reads it
ProgrammedDiv ==
    [int  |-> IF clk_div[args.node].div_int = 0 THEN FRAC_ONE
              ELSE clk_div[args.node].div_int,
     frac |-> clk_div[args.node].div_frac]

\* the rate of the node for the programmed divider moved by one fractional
\* LSB down (a higher rate) and up (a lower rate)
RateOneLsbDown ==
    div_u64_shifted(args.parent_rate,
                    IF ProgrammedDiv.frac = 0
                    THEN [int |-> ProgrammedDiv.int - 1, frac |-> FRAC_ONE - 1]
                    ELSE [int |-> ProgrammedDiv.int, frac |-> ProgrammedDiv.frac - 1])

RateOneLsbUp ==
    div_u64_shifted(args.parent_rate,
                    IF ProgrammedDiv.frac = FRAC_ONE - 1
                    THEN [int |-> ProgrammedDiv.int + 1, frac |-> 0]
                    ELSE [int |-> ProgrammedDiv.int, frac |-> ProgrammedDiv.frac + 1])

\* what one fractional LSB of the programmed divider changes in the rate,
\* and the 1 Hz by which a rate in whole Hz is truncated
RoundTripTolerance == (RateOneLsbDown - RateOneLsbUp) + 1

\* C15: after determine_rate(target) returns (rate, parent, parent_rate),
\* set_rate_and_parent(rate, parent_rate, parent) and then
\* recalc_rate(parent_rate) give a rate within one fractional LSB of the
\* rate determine_rate returned, for plain leaves and for the leaf on the
\* audio chain.
C15_RoundTrip ==
    RoundTripped => ABS_DIFF(retval[1].rate, args.rate) <= RoundTripTolerance

\* the round trips of C15 on a parent other than the audio PLL of the chain
C15_PlainRoundTrip ==
    (RoundTripped /\ ~(args.node = clk_i2s /\ rp1_clk_chg_tree[1].new_rate = args.parent_rate)) =>
        ABS_DIFF(retval[1].rate, args.rate) <= RoundTripTolerance

\* a round trip through the chain whose secondary divisor the 8-bit divider
\* of clk_i2s holds
C15_ChainRoundTrip ==
    (/\ RoundTripped /\ args.node = clk_i2s
     /\ rp1_clk_chg_tree[1].new_rate = args.parent_rate
     /\ DIV_ROUND_CLOSEST(args.parent_rate, args.rate)
            <= clk_desc_array[clk_i2s].div_int_max) =>
        ABS_DIFF(retval[1].rate, args.rate) <= RoundTripTolerance

\* the set_rate_and_parent call that has just returned was given a rate
\* and a parent rate for which rp1_clock_choose_div yields zero
ZeroDivider ==
    /\ args.op = "set_rate_and_parent"
    /\ rp1_clock_choose_div(args.rate, args.parent_rate,
                            clk_desc_array[args.node]) = DIV_ZERO

\* C16: when choose_div yields zero for the rate and parent rate given to
\* set_rate_and_parent, the call ends with the divider registers at unity
\* divide (integer part 1, fraction 0) and returns a failure to its caller.
C16_ZeroDividerFails ==
    ZeroDivider =>
        /\ clk_div[args.node].div_int = 1
        /\ clk_div[args.node].div_frac = 0
        /\ retval[1].ret # 0

\* the half of C16 the code keeps: the registers hold unity divide
C16_ZeroDividerUnity ==
    ZeroDivider =>
        /\ clk_div[args.node].div_int = 1
        /\ clk_div[args.node].div_frac = 0

\* the get_parent call that has just returned follows a set_parent call
\* for the declared index args.set[1]
ParentSetAndRead == args.op = "get_parent" /\ args.set # <<>>

\* index is the slot of the standard parents that stands for the auxiliary
\* mux
AuxSentinel(node, index) ==
    index = AUX_SEL /\ index < clk_desc_array[node].num_std_parents

\* CLK_x_SEL as the get_parent call read it is zero or shows the source
\* field of CLK_x_CTRL
SelSettled(node) ==
    \/ args.sel = 0
    \/ args.sel = 2 ^ bit_and(clk_ctrl[node].src, clk_desc_array[node].clk_src_mask)

\* C17: for every declared parent index i of a node that is not the
\* aux-sentinel slot, set_parent(i) followed by get_parent() returns i,
\* the select register being zero or showing the source field just
\* written, for standard indices and for auxiliary ones.
C17_SetThenGetParent ==
    (/\ ParentSetAndRead
     /\ ~AuxSentinel(args.node, args.set[1])
     /\ SelSettled(args.node)) =>
        retval[1].parent = args.set[1]

\* a standard index read back through a select register that shows it
C17_Witness ==
    /\ ParentSetAndRead
    /\ args.set[1] = 2
    /\ args.set[1] < clk_desc_array[args.node].num_std_parents
    /\ args.sel = 4
    /\ retval[1].parent = 2

\* an auxiliary index above 0 read back
C17_AuxWitness ==
    /\ ParentSetAndRead
    /\ args.set[1] >= clk_desc_array[args.node].num_std_parents
    /\ args.set[1] > 0
    /\ SelSettled(args.node)
    /\ retval[1].parent = args.set[1]

\* the calc_core_pll_rate call that has just returned
CoreCalculated == args.op = "calc_core_pll_rate"

\* the secondary divisors 1..256 with which the table entry div_prim takes
\* the target of the call to 16 times the reference rate or above
SecondaryDivisors(div_prim) ==
    {s \in 1..DIV_CLK_MAX :
        ~u64_lt(u64_mul(args.target_rate, s * div_prim),
                u64_mul(clk_hw_rate[clk_xosc], 16))}

SmallestSecondary(div_prim) ==
    CHOOSE s \in SecondaryDivisors(div_prim) :
        \A t \in SecondaryDivisors(div_prim) : s <= t

\* the VCO rates the table offers for the target, those below 2.4 GHz
VcoRates ==
    {u64_mul(args.target_rate, prim_divs[i] * SmallestSecondary(prim_divs[i])) :
        i \in {k \in DOMAIN prim_divs : SecondaryDivisors(prim_divs[k]) # {}}}

VcoRatesBelowCeiling == {v \in VcoRates : u64_lt(v, u64_mul(1200 * MHz, 2))}

\* the VCO rate of the divisors the call stored
SelectedVco == u64_mul(args.target_rate, retval[1].div_clk * retval[1].div_prim)

CoreFailed == retval[1].core_rate = [hi |-> 0, lo |-> 0]

\* C18: when calc_core_pll_rate succeeds, the VCO rate target * secondary *
\* primary of the divisors it selects is at least 16 times the reference
\* rate, below 2.4 GHz, and the least of the rates target * primary * s over
\* the table entries, s the smallest secondary divisor in 1..256 that takes
\* the entry to 16 times the reference; it returns 0 exactly when no such
\* rate is below 2.4 GHz.
C18_MinimalVco ==
    CoreCalculated =>
        /\ CoreFailed <=> VcoRatesBelowCeiling = {}
        /\ ~CoreFailed =>
               /\ SelectedVco \in VcoRatesBelowCeiling
               /\ \A v \in VcoRatesBelowCeiling : ~u64_lt(v, SelectedVco)
               /\ \E i \in DOMAIN prim_divs : retval[1].div_prim = prim_divs[i]
               /\ retval[1].div_clk = SmallestSecondary(retval[1].div_prim)

\* a success whose divisors are neither the first table entry nor 1
C18_Witness ==
    /\ CoreCalculated
    /\ ~CoreFailed
    /\ retval[1].div_prim > prim_divs[1]
    /\ retval[1].div_clk > 1
    /\ Cardinality(VcoRatesBelowCeiling) > 1

\* a failure with the least rate the table offers exactly at the ceiling
C18_CeilingWitness ==
    /\ CoreCalculated
    /\ CoreFailed
    /\ u64_mul(1200 * MHz, 2) \in VcoRates

(***************************************************************************)
(* Claims about what the operations write, under SpecRate.                 *)
(***************************************************************************)
\* the registers of the block the driver writes
HardwareRegisters ==
    <<cs_reg, pwr_reg, fbdiv_int_reg, fbdiv_frac_reg, prim_reg, clk_ctrl, clk_div,
      gpclk_oe, fc_regs>>

\* the operations that compute rates
NegotiationOps ==
    {"determine_rate", "calc_core_pll_rate", "round_rate", "pll_round_rate",
     "pll_ph_round_rate", "pll_divider_round_rate", "varsrc_round_rate"}

\* the operations of SpecRate that program the clock
ProgrammingOps == {"set_rate_and_parent", "set_parent"}

C19_RoundRateWitness ==
    /\ args.op \in {"pll_round_rate", "pll_divider_round_rate", "varsrc_round_rate"}
    /\ rp1_clk_chg_tree[1].hw # "NULL"
    /\ regs_lock = "free"

(***************************************************************************)
(* SpecPh: pll_sys and pll_sys_pri_ph, which share PLL_SYS_PRIM, called    *)
(* by two callers on a register that holds, at probe, whatever the         *)
(* firmware or an earlier driver instance left in it.                      *)
(***************************************************************************)
\* contents of PLL_SYS_PRIM at probe: the driver does not reset the register
PrimAtProbe == [div1 : {0, 5}, div2 : {0, 2}, ph_en : BOOLEAN, phase : 0..3]

InitPh ==
    /\ args = [op |-> "probe"]
    /\ retval = <<>>
    /\ CoreAtProbe
    /\ caller = [t \in Threads |-> IF t = "t1" THEN PllCaller ELSE PhCaller]
    /\ CallersIdle
    /\ regs_lock = "free"
    /\ prim_reg \in PrimAtProbe
    /\ clk_ctrl = [c \in GpClocks |-> [enable |-> FALSE, src |-> 0, auxsrc |-> 0]]
    /\ clk_div = [c \in GpClocks |-> [div_int |-> 0, div_frac |-> 0]]
    /\ gpclk_oe = 0
    /\ fc_regs = [i \in FcBlocks |->
                     [ref_khz |-> 0, min_khz |-> 0, max_khz |-> 0,
                      interval |-> 0, delay |-> 0, src |-> 0]]
    /\ fc_status = [i \in FcBlocks |-> [running |-> FALSE, done |-> FALSE]]
    /\ TreeAtProbe
    /\ SecAtProbe

NextPh ==
    \/ \E t \in Threads :
           \/ rp1_pll_set_rate(t)
           \/ rp1_pll_ph_on(t)
           \/ rp1_pll_ph_off(t)
           \/ clockman_measure_clock(t)
    \/ Tick
    \/ hw_fc_status

SpecPh == InitPh /\ [][NextPh]_vars

\* caller t writes the register in rp1_pll_ph_on in this step
PhOnWrites(t) == pc[t] = "ph_on_write" /\ pc'[t] # "ph_on_write"

\* caller t writes the register in rp1_pll_ph_off in this step
PhOffWrites(t) == pc[t] = "ph_off_write" /\ pc'[t] # "ph_off_write"

\* data->phase of the node caller t holds
ConfiguredPhase(t) == pll_desc_array[caller[t].node].phase

\* C20: after rp1_pll_ph_on the phase field of the register is the phase
\* configured for the node and PLL_PH_EN is set, whatever the register held
\* before; rp1_pll_ph_off clears PLL_PH_EN and leaves the phase field and
\* every other field of the register, div1 and div2 of the PLL included, as
\* they were
C20_PhaseEnableDisable ==
    [][\A t \in Threads :
           /\ PhOnWrites(t) => /\ prim_reg'.phase = ConfiguredPhase(t)
                               /\ prim_reg'.ph_en
           /\ PhOffWrites(t) => prim_reg' = [prim_reg EXCEPT !.ph_en = FALSE]]_vars

\* what the code keeps of C20: rp1_pll_ph_on sets PLL_PH_EN, ORs the
\* configured phase into the phase field and leaves div1 and div2;
\* rp1_pll_ph_off clears PLL_PH_EN only
C20_EnableOrsPhase ==
    [][\A t \in Threads :
           /\ PhOnWrites(t) =>
                  prim_reg' = [prim_reg EXCEPT
                                   !.phase = bit_or(@, ConfiguredPhase(t)),
                                   !.ph_en = TRUE]
           /\ PhOffWrites(t) => prim_reg' = [prim_reg EXCEPT !.ph_en = FALSE]]_vars

\* rp1_pll_ph_off has returned after rp1_pll_ph_on: the phase output is
\* disabled again, and the phase selected at probe and the PLL dividers are
\* still in the register
C20_DisableWitness ==
    /\ \E t \in Threads :
           "rp1_pll_ph_off" \in caller[t].ops /\ pc[t] = "idle" /\ ret[t] # <<>>
    /\ ~prim_reg.ph_en
    /\ prim_reg.phase # 0
    /\ prim_reg.div1 # 0

\* rp1_pll_ph_on has written a register in which a phase other than the
\* configured one was selected
C20_StalePhaseWitness ==
    /\ \E t \in Threads : op[t].fn = "rp1_pll_ph_on" /\ pc[t] \notin {"idle", "ph_on_write"}
    /\ prim_reg.ph_en
    /\ prim_reg.phase # 0

(***************************************************************************)
(* rp1_pll_divider_on, rp1_pll_divider_off and rp1_pll_divider_set_rate on *)
(* PLL_SYS_SEC.                                                            *)
(***************************************************************************)
DIV_ROUND_UP_ULL(ll, d) == (ll + d - 1) \div d

clamp_none(val, lo, hi) == val

clamp(val, lo, hi) == IF val < lo THEN lo ELSE IF val > hi THEN hi ELSE val

\* lines 943-944: the value of the PLL_SEC_DIV field for a rate
pll_divider_div(rate, parent_rate) == clamp(DIV_ROUND_UP_ULL(parent_rate, rate), 8, 19)

\* what PLL_SYS_SEC holds after the driver writes v: PLL_SEC_IMPL reports
\* the hardware, and a write either sets it or leaves it
hw_sec_write(v) == {v, [v EXCEPT !.impl = sec_reg.impl]}

\* line 901
rp1_pll_divider_is_on == ~sec_reg.rst

\* line 910
pll_divider_on_lock(t) ==
    /\ Idle(t, "rp1_pll_divider_on")
    /\ op' = [op EXCEPT ![t] = [fn |-> "rp1_pll_divider_on", warned |-> FALSE]]
    /\ spin_lock(t)
    /\ Goto(t, "sec_on_write")
    /\ UNCHANGED <<treeVars, secVars, fnVars, coreVars, prim_reg, clk_ctrl, clk_div, gpclk_oe,
                   fc_regs, fc_status, caller, tmp, timer, fc_result, ret>>

\* lines 912-918: WARN_ON reports a clear PLL_SEC_IMPL and the function
\* goes on
pll_divider_on_write(t) ==
    /\ pc[t] = "sec_on_write"
    /\ op' = [op EXCEPT ![t] = [fn |-> "rp1_pll_divider_on", warned |-> ~sec_reg.impl]]
    /\ sec_reg' \in hw_sec_write([sec_reg EXCEPT !.rst = FALSE])
    /\ spin_unlock
    /\ measure_call(t)
    /\ UNCHANGED <<treeVars, fnVars, coreVars, prim_reg, clk_ctrl, clk_div, gpclk_oe, fc_regs,
                   fc_status, caller, tmp, ret>>

rp1_pll_divider_on(t) == pll_divider_on_lock(t) \/ pll_divider_on_write(t)

\* line 929
pll_divider_off_lock(t) ==
    /\ Idle(t, "rp1_pll_divider_off")
    /\ op' = [op EXCEPT ![t] = [fn |-> "rp1_pll_divider_off"]]
    /\ spin_lock(t)
    /\ Goto(t, "sec_off_write")
    /\ UNCHANGED <<treeVars, secVars, fnVars, coreVars, prim_reg, clk_ctrl, clk_div, gpclk_oe,
                   fc_regs, fc_status, caller, tmp, timer, fc_result, ret>>

\* lines 930-932: the register is written as PLL_SEC_RST alone
pll_divider_off_write(t) ==
    /\ pc[t] = "sec_off_write"
    /\ sec_reg' \in hw_sec_write([div |-> 0, rst |-> TRUE, impl |-> FALSE])
    /\ spin_unlock
    /\ ReturnVoid(t)
    /\ UNCHANGED <<treeVars, fnVars, coreVars, prim_reg, clk_ctrl, clk_div, gpclk_oe, fc_regs,
                   fc_status, caller, timer>>

rp1_pll_divider_off(t) == pll_divider_off_lock(t) \/ pll_divider_off_write(t)

\* (rate, parent_rate) requests of pll_sys_sec below a 1 GHz core
SecRateInputs ==
    [rate : {3, 50 * MHz, 90 * MHz, 100 * MHz, 125 * MHz, 200 * MHz},
     parent_rate : {1000 * MHz}]

\* lines 943-948: the field value is computed, the lock taken, the register
\* read and the field set in the local
pll_divider_set_rate_read(t) ==
    /\ Idle(t, "rp1_pll_divider_set_rate")
    /\ \E a \in SecRateInputs :
           /\ op' = [op EXCEPT ![t] = [fn |-> "rp1_pll_divider_set_rate", rate |-> a.rate,
                                       parent_rate |-> a.parent_rate]]
           /\ SetTmp(t, [sec_reg EXCEPT !.div = pll_divider_div(a.rate, a.parent_rate)])
    /\ spin_lock(t)
    /\ Goto(t, "sec_rate_write")
    /\ UNCHANGED <<treeVars, secVars, fnVars, coreVars, prim_reg, clk_ctrl, clk_div, gpclk_oe,
                   fc_regs, fc_status, caller, timer, fc_result, ret>>

\* lines 951-952: the field is written with the divider in reset
pll_divider_set_rate_write(t) ==
    /\ pc[t] = "sec_rate_write"
    /\ sec_reg' \in hw_sec_write([tmp[t] EXCEPT !.rst = TRUE])
    /\ Goto(t, "sec_rate_release")
    /\ UNCHANGED <<treeVars, fnVars, coreVars, bankVars, caller, op, tmp, timer, fc_result,
                   ret>>

\* lines 955-957: the same value is written with PLL_SEC_RST clear
pll_divider_set_rate_release(t) ==
    /\ pc[t] = "sec_rate_release"
    /\ sec_reg' \in hw_sec_write([tmp[t] EXCEPT !.rst = FALSE])
    /\ spin_unlock
    /\ Goto(t, "sec_rate_measure")
    /\ SetTmp(t, NoTmp)
    /\ UNCHANGED <<treeVars, fnVars, coreVars, prim_reg, clk_ctrl, clk_div, gpclk_oe, fc_regs,
                   fc_status, caller, op, timer, fc_result, ret>>

\* lines 960-963: rp1_pll_divider_is_on, then the measurement or the return
pll_divider_set_rate_measure(t) ==
    /\ pc[t] = "sec_rate_measure"
    /\ IF rp1_pll_divider_is_on
       THEN measure_call(t) /\ UNCHANGED <<op, tmp, ret>>
       ELSE Return(t, <<0>>) /\ UNCHANGED timer
    /\ UNCHANGED <<treeVars, secVars, fnVars, coreVars, bankVars, caller>>

rp1_pll_divider_set_rate(t) ==
    \/ pll_divider_set_rate_read(t)
    \/ pll_divider_set_rate_write(t)
    \/ pll_divider_set_rate_release(t)
    \/ pll_divider_set_rate_measure(t)

(***************************************************************************)
(* SpecSec: one caller setting the rate of pll_sys_sec and disabling it,   *)
(* another enabling and disabling it, on a register that holds at probe    *)
(* what the firmware left in it.                                           *)
(***************************************************************************)
SecRateCaller ==
    [node |-> "pll_sys_sec", ops |-> {"rp1_pll_divider_set_rate", "rp1_pll_divider_off"}]

SecGateCaller ==
    [node |-> "pll_sys_sec", ops |-> {"rp1_pll_divider_on", "rp1_pll_divider_off"}]

\* contents of PLL_SYS_SEC at probe: the driver does not reset the register
SecRegAtProbe == [div : {0, 8, 10}, rst : BOOLEAN, impl : BOOLEAN]

InitSec ==
    /\ args = [op |-> "probe"]
    /\ retval = <<>>
    /\ CoreAtProbe
    /\ caller = [t \in Threads |-> IF t = "t1" THEN SecRateCaller ELSE SecGateCaller]
    /\ CallersIdle
    /\ BankAtProbe
    /\ TreeAtProbe
    /\ sec_reg \in SecRegAtProbe

NextSec ==
    \/ \E t \in Threads :
           \/ rp1_pll_divider_on(t)
           \/ rp1_pll_divider_off(t)
           \/ rp1_pll_divider_set_rate(t)
           \/ clockman_measure_clock(t)
    \/ Tick
    \/ hw_fc_status

SpecSec == InitSec /\ [][NextSec]_vars

(***************************************************************************)
(* Claims about the secondary divider, under SpecSec.                      *)
(***************************************************************************)
\* caller t is inside the critical section of rp1_pll_divider_set_rate
InSecRateSection(t) == pc[t] \in {"sec_rate_write", "sec_rate_release"}

\* clamp(ceil(parent_rate / target), 8, 19)
ClampedCeil(target, parent_rate) ==
    LET q == parent_rate \div target
        c == IF q * target = parent_rate THEN q ELSE q + 1
    IN  IF c < 8 THEN 8 ELSE IF c > 19 THEN 19 ELSE c

\* C21: rp1_pll_divider_set_rate(target, parent_rate) programs the divider
\* field with clamp(ceil(parent_rate / target), 8, 19); every write that
\* changes the divider field has PLL_SEC_RST set; a write that releases the
\* reset carries the divider value already in the register; and the two
\* writes of set_rate are made in one hold of the lock
C21_DividerChangedInReset ==
    [][/\ \A t \in Threads :
              /\ pc[t] = "sec_rate_write" /\ pc'[t] = "sec_rate_release"
                     => /\ sec_reg'.div = ClampedCeil(op[t].rate, op[t].parent_rate)
                        /\ sec_reg'.rst
                        /\ regs_lock = t /\ regs_lock' = t
              /\ pc[t] = "sec_rate_release" /\ pc'[t] # "sec_rate_release"
                     => /\ sec_reg'.div = ClampedCeil(op[t].rate, op[t].parent_rate)
                        /\ sec_reg'.div = sec_reg.div
                        /\ sec_reg.rst /\ ~sec_reg'.rst
                        /\ regs_lock = t
              /\ InSecRateSection(t) /\ InSecRateSection(t)' => UNCHANGED regs_lock
       /\ sec_reg'.div # sec_reg.div => sec_reg'.rst
       /\ sec_reg.rst /\ ~sec_reg'.rst => sec_reg'.div = sec_reg.div]_vars

\* set_rate has released the reset on a divider value it changed: 3 Hz
\* below a 1 GHz core clamps to 19
C21_Witness ==
    \E t \in Threads :
        /\ pc[t] = "sec_rate_measure"
        /\ op[t].rate = 3
        /\ sec_reg.div = 19
        /\ ~sec_reg.rst

\* set_rate has released the reset on a value clamped from below: 200 MHz
\* asks for 5 and gets 8
C21_LowClampWitness ==
    \E t \in Threads :
        /\ pc[t] = "sec_rate_measure"
        /\ op[t].rate = 200 * MHz
        /\ sec_reg.div = 8
        /\ ~sec_reg.rst

\* caller t writes the register in rp1_pll_divider_on in this step
SecOnWrites(t) == pc[t] = "sec_on_write" /\ pc'[t] # "sec_on_write"

\* caller t writes the register in rp1_pll_divider_off in this step
SecOffWrites(t) == pc[t] = "sec_off_write" /\ pc'[t] # "sec_off_write"

\* C22: rp1_pll_divider_on called while PLL_SEC_IMPL is clear does not
\* release the divider from reset: it leaves the register as it was or ends
\* in the fatal state
C22_EnableNeedsImplemented ==
    [][\A t \in Threads :
           SecOnWrites(t) /\ ~sec_reg.impl => (sec_reg' = sec_reg \/ fatal')]_vars

\* what the code keeps of C22: with PLL_SEC_IMPL clear the call warns, and
\* then clears PLL_SEC_RST as it does with the bit set, without ending in
\* the fatal state
C22_EnableWarnsOnly ==
    [][\A t \in Threads :
           SecOnWrites(t) =>
               /\ op'[t].warned = ~sec_reg.impl
               /\ ~sec_reg'.rst
               /\ UNCHANGED fatal]_vars

\* rp1_pll_divider_on has released the reset of a divider whose
\* PLL_SEC_IMPL is clear
C22_ReleasedWitness ==
    /\ \E t \in Threads : op[t].fn = "rp1_pll_divider_on" /\ op[t].warned
    /\ ~sec_reg.rst
    /\ ~sec_reg.impl
    /\ ~fatal

\* the divisor the framework's divider decodes from the PLL_SEC_DIV field
SecDivisor(reg) == pll_sec_div_table[reg.div]

\* C23: rp1_pll_divider_on and rp1_pll_divider_off change PLL_SEC_RST only:
\* the PLL_SEC_DIV field stays, and with it the divisor decoded from the
\* field
C23_GateTogglesResetOnly ==
    [][\A t \in Threads :
           /\ SecOnWrites(t) => /\ ~sec_reg'.rst
                                /\ sec_reg'.div = sec_reg.div
                                /\ SecDivisor(sec_reg') = SecDivisor(sec_reg)
           /\ SecOffWrites(t) => /\ sec_reg'.rst
                                 /\ sec_reg'.div = sec_reg.div
                                 /\ SecDivisor(sec_reg') = SecDivisor(sec_reg)]_vars

\* what the code keeps of C23: rp1_pll_divider_on changes PLL_SEC_RST only,
\* and rp1_pll_divider_off sets PLL_SEC_RST and clears the PLL_SEC_DIV field
C23_EnableKeepsDivider ==
    [][\A t \in Threads :
           /\ SecOnWrites(t) => sec_reg' = [sec_reg EXCEPT !.rst = FALSE]
           /\ SecOffWrites(t) => sec_reg'.rst /\ sec_reg'.div = 0]_vars

\* pll_sys_sec was set to divide by 10, disabled and enabled again: the
\* field reads 0, which the table decodes as 19
C23_DividerLostWitness ==
    /\ \E t \in Threads : op[t].fn = "rp1_pll_divider_on" /\ pc[t] # "sec_on_write"
    /\ ~sec_reg.rst
    /\ sec_reg.div = 0
    /\ ret["t1"] = <<0>>

(***************************************************************************)
(* Claims about the retune plan of the audio chain, under SpecRate.        *)
(***************************************************************************)
\* index of pll_audio (the handle clk_audio) among the parents of clk_i2s
AudioIndex == 1

\* the determine_rate call that has just returned ran the chain retune: it
\* was on clk_i2s, its loop reached clk_audio, and the plan it found had no
\* entry for the request
ChainRetuned ==
    /\ Determined
    /\ args.node = clk_i2s
    /\ retval[1].last >= AudioIndex
    /\ chg_tree_lookup(args.tree, clk_i2s, clk_audio, args.rate) = <<>>

\* the plan holds the three nodes of the chain, most-downstream first
PlanOfChain(tree) ==
    /\ DOMAIN tree = 0..2
    /\ tree[0].hw = clk_i2s
    /\ tree[1].hw = clk_audio
    /\ tree[2].hw = clk_audio_parent

\* round(a / b)
RoundedQuotient(a, b) ==
    LET q == a \div b IN IF 2 * (a - q * b) >= b THEN q + 1 ELSE q

C24_RepeatWitness ==
    /\ Determined /\ args.node = clk_i2s
    /\ args.tree[0] = [hw |-> clk_i2s, new_rate |-> args.rate]
    /\ retval[1].ret = 0 /\ retval[1].index = AudioIndex
    /\ args.rate > 0

\* the chain retune has just run
C24_RetuneWitness == ChainRetuned /\ rp1_clk_chg_tree[0].new_rate = 1536 * KHz

\* the call that has just returned applied the rate a coordinated retune of
\* the audio chain had negotiated: the retune has finished
RetuneApplied ==
    /\ args.op = "set_rate_and_parent"
    /\ args.node = clk_i2s
    /\ args.determined
    /\ args.parent = AudioIndex
    /\ rp1_clk_chg_tree[0].hw = clk_i2s

\* rp1_clk_chg_tree with no entry
NoPlan == [i \in 0..2 |-> [hw |-> "NULL", new_rate |-> 0]]

\* C25: once a coordinated retune has been negotiated and applied, the next
\* rp1_pll_round_rate request computes from the parent rate it is given and
\* the next rp1_clock_determine_rate request returns what it returns when no
\* plan is left, also when the request names a node and rate of the plan
C25_PlanNotPersisted ==
    [][RetuneApplied =>
           /\ args'.op = "pll_round_rate" =>
                  /\ retval'[1].parent_rate = args'.parent_rate
                  /\ retval'[1].rate =
                         LET d == get_pll_prim_dividers(args'.rate, args'.parent_rate)
                         IN  DIV_ROUND_CLOSEST(args'.parent_rate, d[1] * d[2])
           /\ args'.op = "determine_rate" =>
                  LET fresh == rp1_clock_determine_rate(args'.node, args'.rate,
                                                        clk_sel[args'.node],
                                                        clk_ctrl[args'.node], NoPlan)
                  IN  /\ retval'[1].rate = fresh.rate
                      /\ retval'[1].best_parent_rate = fresh.best_parent_rate]_vars

\* what the code keeps of C25: a plan entry stays until the next chain
\* retune overwrites it, and applying a rate leaves the plan as it is
C25_PlanKeptUntilOverwritten ==
    [][rp1_clk_chg_tree' # rp1_clk_chg_tree =>
           /\ args'.op = "determine_rate"
           /\ args'.node = clk_i2s
           /\ PlanOfChain(rp1_clk_chg_tree')]_vars

\* after the retune was applied, rp1_pll_round_rate of pll_audio was asked
\* for the rate of the stale entry with a live core rate that had changed,
\* and answered with the planned core rate
C25_StaleWitness ==
    /\ args.op = "pll_round_rate"
    /\ args.hw = clk_audio
    /\ clk_div[clk_i2s].div_int # 0
    /\ args.rate = rp1_clk_chg_tree[1].new_rate
    /\ args.parent_rate # rp1_clk_chg_tree[2].new_rate
    /\ retval[1].parent_rate = rp1_clk_chg_tree[2].new_rate

(***************************************************************************)
(* The range of rp1_clock_choose_div, under SpecDiv.                       *)
(***************************************************************************)
\* the request is one rp1_clock_choose_div does not reject
DivAccepted ==
    /\ DivReturned
    /\ args.rate # 0
    /\ args.rate <= args.parent_rate + (args.parent_rate \div FRAC_ONE)

\* 2^16 <= v <= max_int * 2^16 for the value v = int * 2^16 + frac
InDividerRange(v, max_int) ==
    /\ v.int >= 1
    /\ v.int <= max_int
    /\ v.int = max_int => v.frac = 0

\* C26: for a node of any integer width and any request rp1_clock_choose_div
\* accepts, the 32-bit value it returns lies in [2^16, div_int_max * 2^16];
\* an accepted request never yields 0 or a value below 2^16
C26_DividerInRange ==
    DivAccepted => InDividerRange(Ret, clk_desc_array[args.node].div_int_max)

\* what the code keeps of C26: the range holds on the nodes whose integer
\* part is 8 or 16 bits wide
C26_NarrowDividerInRange ==
    (DivAccepted /\ clk_desc_array[args.node].div_int_max < FRAC_ONE)
        => InDividerRange(Ret, clk_desc_array[args.node].div_int_max)

\* an accepted request on a 16-bit node that was clamped to the top of the
\* range
C26_ClampedWitness ==
    /\ DivAccepted
    /\ clk_desc_array[args.node].div_int_max = DIV_INT_16BIT_MAX
    /\ Ret = [int |-> DIV_INT_16BIT_MAX, frac |-> 0]

\* an accepted request on the 24-bit node answered with 0
C26_TruncatedWitness ==
    /\ DivAccepted
    /\ clk_desc_array[args.node].div_int_max = DIV_INT_24BIT_MAX
    /\ Ret = DIV_ZERO

(***************************************************************************)
(* SpecFc: pll_sys and clk_gp0, whose frequency counter sources 2 and 1    *)
(* are in the same counter block, each with its own caller.                *)
(***************************************************************************)
InitFc ==
    /\ args = [op |-> "probe"]
    /\ retval = <<>>
    /\ CoreAtProbe
    /\ caller = [t \in Threads |-> IF t = "t1" THEN PllCaller ELSE GateCaller("clk_gp0")]
    /\ CallersIdle
    /\ BankAtProbe
    /\ TreeAtProbe
    /\ SecAtProbe

NextFc ==
    \/ \E t \in Threads :
           \/ rp1_pll_set_rate(t)
           \/ rp1_clock_on(t)
           \/ rp1_clock_off(t)
           \/ clockman_measure_clock(t)
    \/ Tick
    \/ hw_fc_status

SpecFc == InitFc /\ [][NextFc]_vars

\* caller t has programmed its source and not yet cleared it
FcProgrammed(t) == pc[t] \in {"fc_poll_done", "fc_lock_clear", "fc_clear"}

\* caller t leaves clockman_measure_clock in this step after it programmed
\* its source
FcReturnsProgrammed(t) == FcProgrammed(t) /\ pc'[t] = "fc_return"

\* C27: clockman_measure_clock ends by clearing FC0_SRC under the lock: when
\* a call that programmed a source returns, on any return path, FC0_SRC of
\* its counter block is 0
C27_SourceClearedOnReturn ==
    [][\A t \in Threads :
           FcReturnsProgrammed(t) =>
               /\ fc_regs'[fc_idx_of(t)].src = 0
               /\ regs_lock = t]_vars

\* what the code keeps of C27: a call that read a result clears FC0_SRC
\* under the lock before it returns; a call whose wait for FC0_STATUS_DONE
\* timed out returns without the lock and leaves FC0_SRC as it is
C27_ClearedAfterResult ==
    [][\A t \in Threads :
           FcReturnsProgrammed(t) =>
               IF pc[t] = "fc_clear"
               THEN fc_regs'[fc_idx_of(t)].src = 0 /\ regs_lock = t
               ELSE /\ pc[t] = "fc_poll_done"
                    /\ ~fc_status[fc_idx_of(t)].done
                    /\ timer[t] > TicksPerTimeout
                    /\ UNCHANGED fc_regs]_vars

\* a call has returned on the timeout of the second loop and its source is
\* still selected, with no caller inside a measurement
C27_LeftSelectedWitness ==
    /\ \A t \in Threads : pc[t] = "idle"
    /\ fc_regs[0].src # 0

\* the measurement of caller u is in flight: u has programmed its source
\* and waits for FC0_STATUS_DONE or has yet to read the result
FcInFlight(u) == pc[u] = "fc_poll_done"

\* C28: two clockman_measure_clock calls on the same counter block do not
\* interfere: no call writes FC0_SRC of the block, to program its source or
\* to clear it, while the measurement of another call is in flight, so the
\* result a call reads is a measurement of the source it programmed itself
C28_MeasurementsDoNotInterfere ==
    [][\A t \in Threads :
           /\ fc_regs'[fc_idx_of(t)].src # fc_regs[fc_idx_of(t)].src /\ pc'[t] # pc[t]
                  => \A u \in Threads \ {t} :
                         ~(FcInFlight(u) /\ fc_idx_of(u) = fc_idx_of(t))
           /\ pc[t] = "fc_poll_done" /\ pc'[t] = "fc_lock_clear"
                  => fc_regs[fc_idx_of(t)].src = fc_src_of(t)]_vars

\* what the code keeps of C28: the writes of the counter registers are made
\* with the lock held, one caller at a time
C28_CounterWritesLocked ==
    [][\A i \in FcBlocks : fc_regs'[i] # fc_regs[i] => regs_lock # "free"]_vars

\* the caller of pll_sys reads a result while the counter block selects
\* the source of clk_gp0
C28_ForeignSourceWitness ==
    \E t \in Threads :
        /\ pc[t] = "fc_lock_clear"
        /\ fc_src_of(t) = 2
        /\ fc_regs[fc_idx_of(t)].src = 1
        /\ fc_result[t] # <<>>


(***************************************************************************)
(* The is_enabled callbacks, each a read of the register its enable and    *)
(* disable callbacks write.                                                *)
(***************************************************************************)
PLL_PWR_PD == 1

PLL_PWR_POSTDIVPD == 8

\* lines 511-519
rp1_pll_core_is_on ==
    bit_and(pwr_reg, PLL_PWR_PD) # 0 \/ bit_and(pwr_reg, PLL_PWR_POSTDIVPD) # 0

\* lines 799-806
rp1_pll_ph_is_on == prim_reg.ph_en

\* lines 996-1003
rp1_clock_is_on(clk) == clk_ctrl[clk].enable

\* caller t, alone on its node, returns 0 from rp1_pll_core_on in this step
CoreOnSucceeds(t) ==
    /\ pc[t] = "core_poll"
    /\ pc'[t] = "idle"
    /\ ret'[t] = <<0>>
    /\ \A u \in Threads \ {t} : caller[u].node # caller[t].node

\* caller t writes the register in rp1_pll_core_off in this step
CoreOffWrites(t) == pc[t] = "core_off_write" /\ pc'[t] # "core_off_write"

\* caller t writes CTRL in the operation fn of a leaf clock in this step
GateWrites(t, fn) ==
    pc[t] = "gate_ctrl_write" /\ op[t].fn = fn /\ pc'[t] # "gate_ctrl_write"

\* the phase output and the leaf clocks read back what the last of their
\* enable and disable operations wrote
GateReadsBack ==
    \A t \in Threads :
        /\ PhOnWrites(t) => rp1_pll_ph_is_on'
        /\ PhOffWrites(t) => ~rp1_pll_ph_is_on'
        /\ GateWrites(t, "rp1_clock_on") => rp1_clock_is_on(caller[t].node)'
        /\ GateWrites(t, "rp1_clock_off") => ~rp1_clock_is_on(caller[t].node)'

\* the secondary divider reads back what the last of its enable and disable
\* operations wrote
DividerReadsBack ==
    \A t \in Threads :
        /\ SecOnWrites(t) => rp1_pll_divider_is_on'
        /\ SecOffWrites(t) => ~rp1_pll_divider_is_on'

\* C29: for the PLL core, the phase output, the secondary divider and the
\* leaf clocks, is_enabled reads true once the enable operation has
\* succeeded and false once the disable operation has run
C29_IsEnabledReflectsLastCall ==
    [][/\ \A t \in Threads :
              /\ CoreOnSucceeds(t) => rp1_pll_core_is_on'
              /\ CoreOffWrites(t) => ~rp1_pll_core_is_on'
       /\ GateReadsBack
       /\ DividerReadsBack]_vars

\* C29, the kinds that read back their own enable bit: the phase output and
\* the leaf clocks (the secondary divider is under SpecSec)
C29_GatesReflectLastCall == [][GateReadsBack]_vars

\* C29, the secondary divider
C29_DividerReflectsLastCall == [][DividerReadsBack]_vars

\* C29, the PLL core as the code has it: is_enabled reads false after the
\* enable operation has succeeded as well as after the disable operation
C29_CoreReadsOffAfterEither ==
    [][\A t \in Threads :
           /\ CoreOnSucceeds(t) => ~rp1_pll_core_is_on'
           /\ CoreOffWrites(t) => ~rp1_pll_core_is_on']_vars

\* rp1_pll_core_on has returned 0 to the only caller of the core, and
\* rp1_pll_core_is_on reads false
C29_CoreOnReadsOffWitness ==
    \E t \in Threads :
        /\ caller[t] = CoreCaller
        /\ \A u \in Threads \ {t} : caller[u] # CoreCaller
        /\ pc[t] = "idle"
        /\ ret[t] = <<0>>
        /\ cs_reg.lock
        /\ pwr_reg = PLL_PWR_DSMPD
        /\ ~rp1_pll_core_is_on


\* caller t makes the last register write of rp1_pll_divider_set_rate in
\* this step; tmp[t] is the register as the call read it under the lock
SecRateReleases(t) == pc[t] = "sec_rate_release" /\ pc'[t] # "sec_rate_release"

\* a caller is at the PWR write of rp1_pll_core_on or rp1_pll_core_off
CoreGateWrites == \E t \in Threads : pc[t] \in {"core_on_write", "core_off_write"}

\* C30: a rate change leaves the enable state of the node as it was:
\* rp1_pll_divider_set_rate ends with PLL_SEC_RST as the call found it, and
\* the power-down bits of the core change only in rp1_pll_core_on and
\* rp1_pll_core_off
C30_SetRateKeepsEnableState ==
    [][/\ \A t \in Threads : SecRateReleases(t) => sec_reg'.rst = tmp[t].rst
       /\ pwr_reg' # pwr_reg => CoreGateWrites]_vars

\* C30, the core alone (SpecCore has rp1_pll_core_set_rate and no caller of
\* rp1_pll_core_on or rp1_pll_core_off): PWR and what rp1_pll_core_is_on
\* reads stay as they were
C30_CoreSetRateKeepsPower ==
    [][pwr_reg' = pwr_reg /\ rp1_pll_core_is_on' = rp1_pll_core_is_on]_vars

\* C30, the secondary divider as the code has it: rp1_pll_divider_set_rate
\* ends with PLL_SEC_RST clear whatever it was before
C30_DividerSetRateEnables ==
    [][\A t \in Threads : SecRateReleases(t) => rp1_pll_divider_is_on']_vars

\* C30, the core as the code has it: rp1_pll_core_set_rate leaves PWR at 0
\* or PLL_PWR_DSMPD, as rp1_pll_core_on does
C30_CoreSetRateWritesPower ==
    [][args'.op = "set_rate" /\ ~fatal' /\ vars' # vars
           => /\ pwr_reg' = IF fbdiv_frac_reg' # 0 THEN 0 ELSE PLL_PWR_DSMPD
              /\ ~rp1_pll_core_is_on']_vars

\* a divider that was disabled is in the measurement of a set_rate call,
\* which is made only when the divider reads enabled
C30_DisabledEnabledWitness ==
    \E t \in Threads :
        /\ op[t].fn = "rp1_pll_divider_set_rate"
        /\ pc[t] \in {"fc_poll_running", "fc_lock_setup"}
        /\ \A u \in Threads \ {t} : pc[u] = "idle" /\ ret[u] = <<>>
        /\ rp1_pll_divider_is_on

====
